---- MODULE Spec2Model ----
(***************************************************************************)
(* A model of SnapSort's near-duplicate detection core:                    *)
(*   dedup_utils.py   DeduplicationIndex (records, inverted maps, scoring) *)
(*   photo_utils.py   copy_photo_with_metadata (match, decide, copy, add)  *)
(*                                                                         *)
(* Representation                                                          *)
(*   Optional values : None is <<>>, a present value v is <<v>>.           *)
(*   Strings         : sequences of one-character symbols.                 *)
(*   Paths           : [dir |-> symbol, name |-> sequence of symbols].     *)
(*   Scores          : integers in hundredths (10000 is 100.00); the sum   *)
(*                     of the signal contributions is kept as an exact     *)
(*                     fraction and rounded to two decimals at the end.    *)
(*   Times           : whole seconds.                                      *)
(***************************************************************************)
EXTENDS Integers, Sequences, FiniteSets, TLC

None == <<>>

Some(v) == <<v>>

IsSome(o) == o /= <<>>

Val(o) == o[1]

----------------------------------------------------------------------------
(* Exact fractions <<n, d>> with d > 0, kept in lowest terms.               *)

RECURSIVE Gcd(_, _)
Gcd(a, b) == IF b = 0 THEN a ELSE Gcd(b, a % b)

Abs(x) == IF x < 0 THEN -x ELSE x

Max(a, b) == IF a >= b THEN a ELSE b

Min(a, b) == IF a <= b THEN a ELSE b

Frac(n, d) ==
    LET g == Gcd(Abs(n), d)
    IN  IF n = 0 THEN <<0, 1>> ELSE <<n \div g, d \div g>>

FracAdd(x, y) == Frac(x[1] * y[2] + y[1] * x[2], x[2] * y[2])

FracLess(x, y) == x[1] * y[2] < y[1] * x[2]

FracLeq(x, y) == x[1] * y[2] <= y[1] * x[2]

FracMin(x, y) == IF FracLeq(x, y) THEN x ELSE y

Whole(n) == <<n, 1>>

(* round(x, 2) of a non-negative fraction, in hundredths, ties to even.    *)
Round2(x) ==
    LET ip  == x[1] \div x[2]
        fr  == x[1] % x[2]
        q   == (fr * 100) \div x[2]
        r   == (fr * 100) % x[2]
        up  == \/ 2 * r > x[2]
               \/ 2 * r = x[2] /\ q % 2 = 1
    IN  ip * 100 + q + (IF up THEN 1 ELSE 0)

----------------------------------------------------------------------------
(* Strings.                                                                *)

Lower(c) ==
    CASE c = "T" -> "t"
      [] c = "D" -> "d"
      [] OTHER   -> c

LowerStr(s) == [i \in 1..Len(s) |-> Lower(s[i])]

(* os.path.splitext: the extension starts at the last dot, unless that dot *)
(* is among the leading dots of the name.                                  *)
LastDot(s) ==
    LET dots == {i \in 1..Len(s) : s[i] = "."}
    IN  IF dots = {} THEN 0
        ELSE CHOOSE i \in dots : \A j \in dots : j <= i

SplitExtBase(s) ==
    LET k == LastDot(s)
        leading == k > 0 /\ \A i \in 1..k : s[i] = "."
    IN  IF k = 0 \/ leading THEN s ELSE SubSeq(s, 1, k - 1)

----------------------------------------------------------------------------
(* difflib.SequenceMatcher(None, a, b).ratio(), as dedup_utils.py uses it  *)
(* on the two lower-cased file names (no junk; the automatic junk          *)
(* heuristic needs 200 or more elements).  Positions are 1-based and a     *)
(* range is [lo, hi).                                                      *)

RECURSIVE RunLen(_, _, _, _, _, _)
RunLen(a, i, ahi, b, j, bhi) ==
    IF i < ahi /\ j < bhi /\ a[i] = b[j]
    THEN 1 + RunLen(a, i + 1, ahi, b, j + 1, bhi)
    ELSE 0

(* find_longest_match: the longest common block; among the longest, the    *)
(* one starting earliest in a, and among those the one earliest in b.       *)
FindLongestMatch(a, alo, ahi, b, blo, bhi) ==
    LET pos  == (alo..(ahi - 1)) \X (blo..(bhi - 1))
        len  == [p \in pos |-> RunLen(a, p[1], ahi, b, p[2], bhi)]
        best == CHOOSE k \in {len[p] : p \in pos} : \A p \in pos : len[p] <= k
        at   == {p \in pos : len[p] = best}
        bi   == CHOOSE i \in {p[1] : p \in at} : \A p \in at : i <= p[1]
        bj   == CHOOSE j \in {p[2] : p \in {q \in at : q[1] = bi}} :
                    \A p \in at : p[1] = bi => j <= p[2]
    IN  IF best = 0 THEN [i |-> alo, j |-> blo, size |-> 0]
        ELSE [i |-> bi, j |-> bj, size |-> best]

(* get_matching_blocks: the longest block, then the same to its left and   *)
(* to its right; the result is the total length of the blocks.             *)
RECURSIVE MatchCount(_, _, _, _, _, _)
MatchCount(a, alo, ahi, b, blo, bhi) ==
    IF alo >= ahi \/ blo >= bhi THEN 0
    ELSE LET m == FindLongestMatch(a, alo, ahi, b, blo, bhi)
         IN  IF m.size = 0 THEN 0
             ELSE m.size
                  + MatchCount(a, alo, m.i, b, blo, m.j)
                  + MatchCount(a, m.i + m.size, ahi, b, m.j + m.size, bhi)

SeqRatio(a, b) ==
    LET total == Len(a) + Len(b)
    IN  IF total = 0 THEN Whole(1)
        ELSE Frac(2 * MatchCount(a, 1, Len(a) + 1, b, 1, Len(b) + 1), total)

----------------------------------------------------------------------------
(* The file names, source paths and capture times the inputs are drawn     *)
(* from.                                                                   *)

Str_tide == <<"t", "i", "d", "e", ".", "j">>

Str_Diet == <<"D", "i", "e", "t", ".", "j">>

Str_xy == <<"x", "y">>

FileNames == {Str_tide, Str_Diet, Str_xy}

Date0 == Some([sec |-> 0, us |-> 0, tz |-> FALSE])

Date150 == Some([sec |-> 150, us |-> 0, tz |-> FALSE])

Date400 == Some([sec |-> 400, us |-> 0, tz |-> FALSE])

----------------------------------------------------------------------------
(* DeduplicationIndex configuration (the defaults of __init__).            *)

StrictThreshold == 9000

LogThreshold == 7000

PartialHashBytes == 1024

SizeBucketArg == 65536

MinBucketBytes == 1024

SizeBucketBytes == Max(MinBucketBytes, SizeBucketArg)

(* The weights of _calculate_similarity.                                   *)
WeightPartialHash == 45

WeightSize == 20

WeightResolution == 15

WeightFilename == 10

WeightDateTaken == 5

WeightMtime == 5

SizeWindowInv == 100

AreaWindowInv == 20

DateWindow == 300

MtimeWindow == 60

MicrosPerSecond == 1000000

----------------------------------------------------------------------------
(* Files and feature records.                                              *)
(*                                                                         *)
(* A file is [head, size, mtime, readable]: head names the content of its  *)
(* first PartialHashBytes bytes, readable says whether open/read succeeds. *)
(* A datetime is [sec, us, tz] (tz: whether it carries a UTC offset).      *)

(* compute_partial_hash: SHA-256 of the first max_bytes bytes, taken to be *)
(* collision-free: the digest is named by the bytes it was fed.            *)
compute_partial_hash(file, max_bytes) ==
    IF ~file.readable \/ file.size = 0 THEN None
    ELSE Some([head |-> file.head, len |-> Min(file.size, max_bytes)])

_normalize_name(filename) == SplitExtBase(LowerStr(filename))

_resolution_value(width, height) ==
    IF IsSome(width) /\ IsSome(height) /\ Val(width) > 0 /\ Val(height) > 0
    THEN Some(Val(width) * Val(height))
    ELSE None

(* datetime.isoformat(): the fraction is printed only when it is not zero, *)
(* the offset only for an aware datetime.                                  *)
_normalize_datetime(value) ==
    IF IsSome(value)
    THEN Some([sec  |-> Val(value).sec,
               us   |-> Val(value).us,
               frac |-> Val(value).us /= 0,
               off  |-> Val(value).tz])
    ELSE None

(* strptime with "%Y-%m-%dT%H:%M:%S.%f", then "%Y-%m-%dT%H:%M:%S": the     *)
(* first needs a fraction, the second refuses one, and both refuse a       *)
(* trailing offset.                                                        *)
_parse_datetime(value) ==
    IF ~IsSome(value) THEN None
    ELSE IF Val(value).off THEN None
    ELSE IF Val(value).frac
         THEN Some([sec |-> Val(value).sec, us |-> Val(value).us])
         ELSE Some([sec |-> Val(value).sec, us |-> 0])

build_record(src_path, file, width, height, date_taken, dest_path) ==
    [src_path           |-> src_path,
     proposed_dest_path |-> dest_path,
     file_name          |-> src_path.name,
     size               |-> file.size,
     width              |-> width,
     height             |-> height,
     partial_hash       |-> compute_partial_hash(file, PartialHashBytes),
     mtime              |-> file.mtime,
     date_taken         |-> _normalize_datetime(date_taken),
     status             |-> "pending",
     normalized_name    |-> _normalize_name(src_path.name),
     resolution         |-> _resolution_value(width, height),
     final_path         |-> None,
     similarity         |-> None,
     matched_record_id  |-> None,
     id                 |-> None]

----------------------------------------------------------------------------
(* _calculate_similarity: the six signal contributions, as fractions.      *)

(* Mutant: the fingerprint signal is never credited. *)
PartialHashScore_never(left, right) == Whole(0)

PartialHashScore(left, right) ==
    IF /\ IsSome(left.partial_hash)
       /\ IsSome(right.partial_hash)
       /\ left.partial_hash = right.partial_hash
    THEN Whole(WeightPartialHash)
    ELSE Whole(0)

SizeScore(left, right) ==
    LET size_diff == Abs(left.size - right.size)
        max_size  == Max(left.size, right.size)
    IN  IF left.size = 0 \/ right.size = 0 THEN Whole(0)
        ELSE IF size_diff = 0 THEN Whole(WeightSize)
        ELSE IF SizeWindowInv * size_diff < max_size
             THEN Frac(WeightSize * (max_size - SizeWindowInv * size_diff), max_size)
             ELSE Whole(0)

(* Mutant: two absent resolutions count as equal. *)
ResolutionScore_absent_equal(left, right) ==
    IF left.width = right.width /\ left.height = right.height
    THEN Whole(WeightResolution)
    ELSE Whole(0)

ResolutionScore(left, right) ==
    LET pos(o) == IsSome(o) /\ Val(o) > 0
        area_left  == Val(left.width) * Val(left.height)
        area_right == Val(right.width) * Val(right.height)
        area_max   == Max(area_left, area_right)
        area_diff  == Abs(area_left - area_right)
    IN  IF ~(pos(left.width) /\ pos(right.width) /\ pos(left.height) /\ pos(right.height))
        THEN Whole(0)
        ELSE IF left.width = right.width /\ left.height = right.height
        THEN Whole(WeightResolution)
        ELSE IF AreaWindowInv * area_diff < area_max
             THEN Frac(WeightResolution * (area_max - AreaWindowInv * area_diff), area_max)
             ELSE Whole(0)

(* SequenceMatcher(None, name_left.lower(), name_right.lower()).ratio(),   *)
(* tabulated once over the file names in use.                              *)
NameRatio ==
    [a \in FileNames, b \in FileNames |-> SeqRatio(LowerStr(a), LowerStr(b))]

FilenameScore(left, right) ==
    LET ratio == NameRatio[left.file_name, right.file_name]
    IN  Frac(WeightFilename * ratio[1], ratio[2])

DateTakenScore(left, right) ==
    LET date_left  == _parse_datetime(left.date_taken)
        date_right == _parse_datetime(right.date_taken)
        micros == Abs((Val(date_left).sec - Val(date_right).sec) * MicrosPerSecond
                      + (Val(date_left).us - Val(date_right).us))
        window == DateWindow * MicrosPerSecond
    IN  IF ~(IsSome(date_left) /\ IsSome(date_right)) THEN Whole(0)
        ELSE IF micros = 0 THEN Whole(WeightDateTaken)
        ELSE IF micros < window
             THEN Frac(WeightDateTaken * (window - micros), window)
             ELSE Whole(0)

(* Mutant: the partial credit is given outside the window too. *)
MtimeScore_no_window(left, right) ==
    LET seconds == Abs(left.mtime - right.mtime)
    IN  Frac(WeightMtime * (MtimeWindow - seconds), MtimeWindow)

MtimeScore(left, right) ==
    LET seconds == Abs(left.mtime - right.mtime)
    IN  IF seconds = 0 THEN Whole(WeightMtime)
        ELSE IF seconds < MtimeWindow
             THEN Frac(WeightMtime * (MtimeWindow - seconds), MtimeWindow)
             ELSE Whole(0)

RawScore(left, right) ==
    FracAdd(FracAdd(FracAdd(FracAdd(FracAdd(
        PartialHashScore(left, right),
        SizeScore(left, right)),
        ResolutionScore(left, right)),
        FilenameScore(left, right)),
        DateTakenScore(left, right)),
        MtimeScore(left, right))

_calculate_similarity(left, right) ==
    Round2(FracMin(RawScore(left, right), Whole(100)))

----------------------------------------------------------------------------
(* State.                                                                  *)

VARIABLES
    records,          \* DeduplicationIndex._records: identity -> record
    next_id,          \* DeduplicationIndex._next_id
    by_partial_hash,  \* the five inverted maps: key -> set of identities
    by_size_exact,
    by_size_bucket,
    by_resolution,
    by_name,
    returned,         \* the identities add_record has returned, in call order
    destFiles,        \* the destination tree: path -> content of the file there
    lastOp,           \* the operation that ran last and what it returned
    simLeft,          \* the two records handed to _calculate_similarity
    simRight,
    writer,           \* a thread inside add_record: its position and locals
    reader,           \* a thread inside find_best_match: position and locals
    cache,            \* FastHashCache.cache, in insertion order
    access_count,     \* FastHashCache.access_count where it is kept apart
    max_entries,      \* FastHashCache.max_entries
    disk,             \* the files get_hash is asked about: path -> file
    calls,            \* the last two get_hash calls and what they did
    workers,          \* the pool's worker threads: position and locals of each
    progress,         \* the run's ThreadSafeProgress: its lock and four counters
    run               \* the main thread of a run: position and locals

(* What the sequential specifications leave untouched.                     *)
poolVars == <<progress, run>>

extVars == <<writer, reader, cache, access_count, max_entries, disk, calls, workers,
             poolVars>>

threadVars == <<writer, reader, workers>>

cacheVars == <<cache, access_count, max_entries, disk, calls>>

vars == <<records, next_id, by_partial_hash, by_size_exact, by_size_bucket,
          by_resolution, by_name, returned, destFiles, lastOp, simLeft, simRight, extVars>>

indexVars == <<records, next_id, by_partial_hash, by_size_exact, by_size_bucket,
               by_resolution, by_name>>

EmptyMap == <<>>

(* DeduplicationIndex.__init__ *)
IndexInit ==
    /\ records = EmptyMap
    /\ next_id = 1
    /\ by_partial_hash = EmptyMap
    /\ by_size_exact = EmptyMap
    /\ by_size_bucket = EmptyMap
    /\ by_resolution = EmptyMap
    /\ by_name = EmptyMap

NoOp == [op |-> "none"]

NoThread == [pc |-> "idle"]

(* ThreadSafeProgress.__init__ *)
ProgressInit ==
    [lock |-> FALSE, processed |-> 0, copied |-> 0, skipped |-> 0, errors |-> 0]

ExtInit ==
    /\ writer = NoThread
    /\ reader = NoThread
    /\ cache = <<>>
    /\ access_count = <<>>
    /\ max_entries = 0
    /\ disk = EmptyMap
    /\ calls = <<>>
    /\ workers = <<>>
    /\ progress = ProgressInit
    /\ run = NoThread

----------------------------------------------------------------------------
(* DeduplicationIndex: the inverted maps are defaultdict(set); a key is    *)
(* present once something was added under it, and get(key, set()) does not *)
(* create it.                                                              *)

Lookup(map, key) == IF key \in DOMAIN map THEN map[key] ELSE {}

(* Mutant: the identity is not added to the key's set. *)
MapAdd_lost(map, key, id) == map

MapAdd(map, key, id) ==
    [k \in DOMAIN map \cup {key} |->
        IF k = key THEN Lookup(map, k) \cup {id} ELSE map[k]]

Bucket(size) == size \div SizeBucketBytes

(* Mutant: the query looks only into its own bucket. *)
Neighbors_own_only(bucket) == {bucket}

Neighbors(bucket) == {bucket - 1, bucket, bucket + 1}

SizeBucketCandidates(record) ==
    UNION {Lookup(by_size_bucket, n) : n \in Neighbors(Bucket(record.size))}

(* Mutant: the name map is never consulted. *)
_gather_candidate_ids_no_name(record) ==
    LET from_hash == IF IsSome(record.partial_hash)
                     THEN Lookup(by_partial_hash, Val(record.partial_hash))
                     ELSE {}
        from_size == Lookup(by_size_exact, record.size)
                     \cup SizeBucketCandidates(record)
        from_res  == IF IsSome(record.resolution) /\ Val(record.resolution) > 0
                     THEN Lookup(by_resolution, Val(record.resolution))
                     ELSE {}
    IN  from_hash \cup from_size \cup from_res

_gather_candidate_ids(record) ==
    LET from_hash == IF IsSome(record.partial_hash)
                     THEN Lookup(by_partial_hash, Val(record.partial_hash))
                     ELSE {}
        from_size == Lookup(by_size_exact, record.size)
                     \cup SizeBucketCandidates(record)
        from_res  == IF IsSome(record.resolution) /\ Val(record.resolution) > 0
                     THEN Lookup(by_resolution, Val(record.resolution))
                     ELSE {}
        from_name == IF record.normalized_name /= <<>>
                     THEN Lookup(by_name, record.normalized_name)
                     ELSE {}
    IN  from_hash \cup from_size \cup from_res \cup from_name

(* Mutant: the loop without the self-match guard. *)
RECURSIVE BestFrom_no_guard(_, _, _, _)
BestFrom_no_guard(record, order, k, best) ==
    IF k > Len(order) THEN best
    ELSE LET candidate == records[order[k]]
             score     == _calculate_similarity(record, candidate)
         IN  IF score > best.score
             THEN BestFrom_no_guard(record, order, k + 1,
                                    [score |-> score, match |-> Some(candidate)])
             ELSE BestFrom_no_guard(record, order, k + 1, best)

(* Mutant: a candidate that equals the running best replaces it. *)
RECURSIVE BestFrom_or_equal(_, _, _, _)
BestFrom_or_equal(record, order, k, best) ==
    IF k > Len(order) THEN best
    ELSE LET candidate == records[order[k]]
             score     == _calculate_similarity(record, candidate)
         IN  IF candidate.src_path = record.src_path
             THEN BestFrom_or_equal(record, order, k + 1, best)
             ELSE IF score >= best.score
             THEN BestFrom_or_equal(record, order, k + 1,
                                    [score |-> score, match |-> Some(candidate)])
             ELSE BestFrom_or_equal(record, order, k + 1, best)

(* The loop of find_best_match over the candidates in the order the set    *)
(* yields them; `order` is that order, `k` the position reached.           *)
RECURSIVE BestFrom(_, _, _, _)
BestFrom(record, order, k, best) ==
    IF k > Len(order) THEN best
    ELSE LET candidate == records[order[k]]
             score     == _calculate_similarity(record, candidate)
         IN  IF candidate.src_path = record.src_path
             THEN BestFrom(record, order, k + 1, best)
             ELSE IF score > best.score
             THEN BestFrom(record, order, k + 1,
                           [score |-> score, match |-> Some(candidate)])
             ELSE BestFrom(record, order, k + 1, best)

(* Mutant: the running best starts below every score. *)
find_best_match_from_minus_one(record, order) ==
    BestFrom(record, order, 1, [score |-> -1, match |-> None])

find_best_match(record, order) ==
    BestFrom(record, order, 1, [score |-> 0, match |-> None])

Range(f) == {f[i] : i \in DOMAIN f}

(* The orders in which a set of identities can be iterated.                *)
Orders(S) ==
    {o \in [1..Cardinality(S) -> S] : \A i, j \in DOMAIN o : i /= j => o[i] /= o[j]}

(* add_record: the effect on the index; the stored record is a copy of the *)
(* caller's, with its identity.                                            *)
(* Mutant: every record is stamped with the first identity. *)
Stored_first_id(record, record_id) == [record EXCEPT !.id = Some(1)]

Stored(record, record_id) == [record EXCEPT !.id = Some(record_id)]

Store(record) ==
    [k \in DOMAIN records \cup {next_id} |->
        IF k = next_id THEN Stored(record, next_id) ELSE records[k]]

add_record(record) ==
    LET record_id == next_id
        bucket    == Bucket(record.size)
    IN  /\ next_id' = next_id + 1
        /\ records' = Store(record)
        /\ by_partial_hash' =
               IF IsSome(record.partial_hash)
               THEN MapAdd(by_partial_hash, Val(record.partial_hash), record_id)
               ELSE by_partial_hash
        /\ by_size_exact' = MapAdd(by_size_exact, record.size, record_id)
        /\ by_size_bucket' =
               MapAdd(MapAdd(MapAdd(by_size_bucket, bucket - 1, record_id),
                             bucket, record_id),
                      bucket + 1, record_id)
        /\ by_resolution' =
               IF IsSome(record.resolution) /\ Val(record.resolution) > 0
               THEN MapAdd(by_resolution, Val(record.resolution), record_id)
               ELSE by_resolution
        /\ by_name' =
               IF record.normalized_name /= <<>>
               THEN MapAdd(by_name, record.normalized_name, record_id)
               ELSE by_name
        /\ returned' = Append(returned, record_id)

----------------------------------------------------------------------------
(* The scoring function on its own: every pair of records that             *)
(* build_record can produce from the inputs below.                         *)

SimFiles ==
    {[head |-> 1, size |-> 2000, mtime |-> 0,   readable |-> TRUE],
     [head |-> 1, size |-> 2000, mtime |-> 20,  readable |-> TRUE],
     [head |-> 1, size |-> 2000, mtime |-> 100, readable |-> TRUE],
     [head |-> 2, size |-> 2000, mtime |-> 0,   readable |-> TRUE],
     [head |-> 1, size |-> 1990, mtime |-> 0,   readable |-> TRUE],
     [head |-> 1, size |-> 1000, mtime |-> 0,   readable |-> TRUE],
     [head |-> 1, size |-> 0,    mtime |-> 0,   readable |-> TRUE],
     [head |-> 1, size |-> 2000, mtime |-> 0,   readable |-> FALSE]}

SimDims ==
    {<<None, None>>, <<Some(10), Some(10)>>, <<Some(7), Some(14)>>,
     <<Some(20), Some(20)>>}

SimDates == {None, Date0, Date150, Date400}

SimInputs ==
    [path : [dir : {"a"}, name : FileNames], file : SimFiles,
     dims : SimDims, date_taken : SimDates]

RecordOf(input) ==
    build_record(input.path, input.file, input.dims[1], input.dims[2],
                 input.date_taken, None)

SimInit ==
    /\ IndexInit
    /\ returned = <<>>
    /\ destFiles = EmptyMap
    /\ lastOp = NoOp
    /\ ExtInit
    /\ simLeft \in SimInputs
    /\ simRight \in SimInputs

Score ==
    /\ lastOp.op = "none"
    /\ LET left  == RecordOf(simLeft)
           right == RecordOf(simRight)
       IN  lastOp' = [op      |-> "score",
                      left    |-> left,
                      right   |-> right,
                      score   |-> _calculate_similarity(left, right),
                      swapped |-> _calculate_similarity(right, left)]
    /\ UNCHANGED <<indexVars, returned, destFiles, simLeft, simRight, extVars>>

SimNext == Score

SpecSim == SimInit /\ [][SimNext]_vars

----------------------------------------------------------------------------
(* The index used through its public API: build_record, add_record and     *)
(* find_best_match, called one at a time in any order.                     *)

MaxRecords == 2

Paths ==
    {[dir |-> "a", name |-> Str_tide],
     [dir |-> "b", name |-> Str_Diet]}

(* What can be found at a path: a file and the metadata the caller passes  *)
(* with it.  The second photo is a copy of the first made later and handed *)
(* over without dimensions and date; the fourth shares the first's leading *)
(* bytes; the fifth cannot be read; the sixth is empty.                    *)
Photos ==
    {[file |-> [head |-> 1, size |-> 65536, mtime |-> 0, readable |-> TRUE],
      dims |-> <<Some(10), Some(10)>>, date_taken |-> Date0],
     [file |-> [head |-> 1, size |-> 65536, mtime |-> 100, readable |-> TRUE],
      dims |-> <<None, None>>, date_taken |-> None],
     [file |-> [head |-> 2, size |-> 65536, mtime |-> 20, readable |-> TRUE],
      dims |-> <<Some(10), Some(10)>>, date_taken |-> Date0],
     [file |-> [head |-> 1, size |-> 131072, mtime |-> 0, readable |-> TRUE],
      dims |-> <<None, None>>, date_taken |-> Date150],
     [file |-> [head |-> 2, size |-> 262144, mtime |-> 20, readable |-> FALSE],
      dims |-> <<Some(7), Some(14)>>, date_taken |-> Date0],
     [file |-> [head |-> 1, size |-> 0, mtime |-> 0, readable |-> TRUE],
      dims |-> <<None, None>>, date_taken |-> None]}

Inputs ==
    {[path |-> p, file |-> ph.file, dims |-> ph.dims, date_taken |-> ph.date_taken] :
        p \in Paths, ph \in Photos}

Init ==
    /\ IndexInit
    /\ returned = <<>>
    /\ destFiles = EmptyMap
    /\ lastOp = NoOp
    /\ ExtInit
    /\ simLeft = None
    /\ simRight = None

(* The caller makes one call at a time: a call starts once the result of   *)
(* the call before it has been taken.                                      *)
Idle == lastOp.op = "none"

AddRecord(input) ==
    /\ Idle
    /\ next_id <= MaxRecords
    /\ add_record(RecordOf(input))
    /\ lastOp' = [op |-> "add_record", id |-> next_id, record |-> RecordOf(input)]
    /\ UNCHANGED <<destFiles, simLeft, simRight, extVars>>

(* Mutant: a key that is looked up and absent is created, empty. *)
AfterGet_created(map, key) ==
    [k \in DOMAIN map \cup {key} |-> Lookup(map, k)]

(* map.get(key, set()) on a defaultdict: what the lookup leaves behind.    *)
(* get returns the default without storing it.                             *)
AfterGet(map, key) == map

(* What the lookups of find_best_match leave in the index (lines 90 and    *)
(* 164-181).                                                               *)
QueryEffect(record) ==
    LET bucket == Bucket(record.size)
    IN  /\ UNCHANGED <<records, next_id>>
        /\ by_partial_hash' =
               IF IsSome(record.partial_hash)
               THEN AfterGet(by_partial_hash, Val(record.partial_hash))
               ELSE by_partial_hash
        /\ by_size_exact' = AfterGet(by_size_exact, record.size)
        /\ by_size_bucket' =
               AfterGet(AfterGet(AfterGet(by_size_bucket, bucket - 1), bucket),
                        bucket + 1)
        /\ by_resolution' =
               IF IsSome(record.resolution) /\ Val(record.resolution) > 0
               THEN AfterGet(by_resolution, Val(record.resolution))
               ELSE by_resolution
        /\ by_name' =
               IF record.normalized_name /= <<>>
               THEN AfterGet(by_name, record.normalized_name)
               ELSE by_name

FindBestMatch(input, order) ==
    /\ Idle
    /\ LET record == RecordOf(input)
           found  == find_best_match(record, order)
       IN  /\ lastOp' = [op           |-> "find_best_match",
                         query        |-> record,
                         order        |-> order,
                         score        |-> found.score,
                         match        |-> found.match,
                         index_before |-> indexVars]
           /\ QueryEffect(record)
    /\ UNCHANGED <<returned, destFiles, simLeft, simRight, extVars>>

(* The caller repeats the query it has just made.  The candidate set is    *)
(* built by the same steps as before, so when it holds the same identities *)
(* it is iterated in the same order.                                       *)
FindAgain(order) ==
    /\ lastOp.op = "find_best_match"
    /\ Range(order) = Range(lastOp.order) => order = lastOp.order
    /\ LET found == find_best_match(lastOp.query, order)
       IN  /\ lastOp' = [op           |-> "find_again",
                         query        |-> lastOp.query,
                         first        |-> [score |-> lastOp.score,
                                           match |-> lastOp.match],
                         second       |-> found,
                         index_before |-> lastOp.index_before]
           /\ QueryEffect(lastOp.query)
    /\ UNCHANGED <<returned, destFiles, simLeft, simRight, extVars>>

Return ==
    /\ ~Idle
    /\ lastOp' = NoOp
    /\ UNCHANGED <<indexVars, returned, destFiles, simLeft, simRight, extVars>>

Next ==
    \/ \E input \in Inputs : AddRecord(input)
    \/ /\ Idle
       /\ \E input \in Inputs :
              \E order \in Orders(_gather_candidate_ids(RecordOf(input))) :
                  FindBestMatch(input, order)
    \/ /\ lastOp.op = "find_best_match"
       /\ \E order \in Orders(_gather_candidate_ids(lastOp.query)) :
              FindAgain(order)
    \/ Return

Spec == Init /\ [][Next]_vars

(* The same calls on photos that have nothing in common: a file named xy   *)
(* beside tide.j, an empty file beside one of 65536 bytes in the next size *)
(* bucket, modified 100 seconds apart.                                     *)
ZeroPaths ==
    {[dir |-> "a", name |-> Str_tide],
     [dir |-> "c", name |-> Str_xy]}

ZeroPhotos ==
    {[file |-> [head |-> 1, size |-> 65536, mtime |-> 100, readable |-> TRUE],
      dims |-> <<None, None>>, date_taken |-> None],
     [file |-> [head |-> 1, size |-> 0, mtime |-> 0, readable |-> TRUE],
      dims |-> <<None, None>>, date_taken |-> None],
     [file |-> [head |-> 2, size |-> 0, mtime |-> 200, readable |-> FALSE],
      dims |-> <<Some(10), Some(10)>>, date_taken |-> Date0]}

ZeroInputs ==
    {[path |-> p, file |-> ph.file, dims |-> ph.dims, date_taken |-> ph.date_taken] :
        p \in ZeroPaths, ph \in ZeroPhotos}

ZeroNext ==
    \/ \E input \in ZeroInputs : AddRecord(input)
    \/ /\ Idle
       /\ \E input \in ZeroInputs :
              \E order \in Orders(_gather_candidate_ids(RecordOf(input))) :
                  FindBestMatch(input, order)
    \/ Return

SpecZero == Init /\ [][ZeroNext]_vars

----------------------------------------------------------------------------
(* The organizer: copy_photo_with_metadata called for one source file at a *)
(* time with a shared index, as process_file_batch does.  The source file  *)
(* stays in place during the call.                                         *)

(* The thresholds the caller passes (min_width, min_height, min_filesize). *)
Config == [min_width |-> 8, min_height |-> 8, min_file_size |-> 1]

SplitExtExt(s) == SubSeq(s, Len(SplitExtBase(s)) + 1, Len(s))

Content(file) == [head |-> file.head, size |-> file.size]

(* construct_dest_path: <dest>/<year>/<month>/<day>/<parent>_<name>; the   *)
(* capture times of the inputs all fall on one day.                        *)
construct_dest_path(src_path, date_taken) ==
    [dir |-> "dest", name |-> <<src_path.dir, "_">> \o src_path.name]

(* The name taken when another file is already at the destination.         *)
Stamped(dest_path, date_taken) ==
    [dir  |-> dest_path.dir,
     name |-> SplitExtBase(dest_path.name)
              \o <<"_", ToString(Val(date_taken).sec)>>
              \o SplitExtExt(dest_path.name)]

_resolve_match_path(dedup_match) ==
    IF ~IsSome(dedup_match) THEN None
    ELSE IF IsSome(Val(dedup_match).final_path) THEN Val(dedup_match).final_path
    ELSE IF IsSome(Val(dedup_match).proposed_dest_path)
         THEN Val(dedup_match).proposed_dest_path
         ELSE Some(Val(dedup_match).src_path)

(* The detail strings for the CSV log are formatted with the format        *)
(* specification ".1f%", which str.format refuses for a float: evaluating  *)
(* the argument raises ValueError before log_csv_func is called.           *)
CsvDetailRaises(dedup_score) == TRUE

(* The checks before the dedup block; "" when the file passes them.        *)
EarlySkip(input, force_copy, system) ==
    LET opened == input.dims /= <<None, None>>
    IN  IF ~force_copy /\ system THEN "system/app folder"
        ELSE IF ~force_copy /\ input.file.size < Config.min_file_size
             THEN "file too small"
        ELSE IF ~force_copy /\ ~opened THEN "cannot open image"
        ELSE IF /\ ~force_copy
                /\ Val(input.dims[1]) < Config.min_width
                /\ Val(input.dims[2]) < Config.min_height
             THEN "resolution too small"
        ELSE IF ~IsSome(input.date_taken) THEN "no valid date"
        ELSE ""

(* The record the dedup block builds: width and height are known only when *)
(* the image was opened, which force_copy skips.                           *)
DedupRecord(input, force_copy, dest_path) ==
    build_record(input.path, input.file,
                 IF force_copy THEN None ELSE input.dims[1],
                 IF force_copy THEN None ELSE input.dims[2],
                 input.date_taken, Some(dest_path))

(* What one call does: its result, the record it adds to the index (if     *)
(* any) and the file it writes (if any).  result "raised" is an exception  *)
(* leaving the function.  The function is followed block by block; each    *)
(* block hands what it computed to the next.                               *)

NoDedup == [built |-> FALSE, score |-> 0, match |-> None, add |-> None, write |-> None]

(* Lines 255-314: the decision on the match, the copy and add_record.      *)
Decide(input, enable_csv_log, force_copy, copy_ok, dest_path, built, found) ==
    LET dedup_record ==
            [built EXCEPT !.similarity = Some(found.score),
                          !.matched_record_id =
                              IF IsSome(found.match) THEN Val(found.match).id
                              ELSE None]
        match_path == _resolve_match_path(found.match)
        strict    == IsSome(found.match) /\ found.score >= StrictThreshold
                     /\ ~force_copy
        potential == IsSome(found.match) /\ found.score >= LogThreshold
        raises    == enable_csv_log /\ CsvDetailRaises(found.score)
        result    == IF (strict \/ potential) /\ raises THEN "raised"
                     ELSE IF strict THEN "skipped"
                     ELSE IF copy_ok THEN "copied"
                     ELSE "error"
    IN  [built  |-> TRUE,
         score  |-> found.score,
         match  |-> found.match,
         result |-> result,
         why    |-> CASE result = "raised"  -> "ValueError"
                      [] result = "skipped" -> "duplicate"
                      [] result = "copied"  -> "success"
                      [] OTHER              -> "copy failed",
         path   |-> CASE result = "skipped" -> match_path
                      [] result = "copied"  -> Some(dest_path)
                      [] OTHER              -> None,
         add    |-> CASE result = "raised"  -> None
                      [] result = "skipped" ->
                            Some([dedup_record EXCEPT !.status = "skipped_duplicate",
                                                      !.final_path = match_path])
                      [] result = "copied"  ->
                            Some([dedup_record EXCEPT !.status = "copied",
                                                      !.final_path = Some(dest_path)])
                      [] OTHER              ->
                            Some([dedup_record EXCEPT !.status = "error",
                                                      !.final_path = Some(dest_path)]),
         write  |-> IF result = "copied" THEN Some(dest_path) ELSE None]

(* Mutant: the record is registered first and then found as its own match. *)
Match_self(input, enable_csv_log, force_copy, copy_ok, dest_path, built, order) ==
    Decide(input, enable_csv_log, force_copy, copy_ok, dest_path, built,
           [score |-> 10000, match |-> Some(Stored(built, next_id))])

(* Line 254: find_best_match on the record just built.                     *)
Match(input, enable_csv_log, force_copy, copy_ok, dest_path, built, order) ==
    Decide(input, enable_csv_log, force_copy, copy_ok, dest_path, built,
           find_best_match(built, order))

(* Lines 239-252: the record is built for the final destination path.      *)
DedupBlock(input, enable_csv_log, force_copy, copy_ok, dest_path, order) ==
    Match(input, enable_csv_log, force_copy, copy_ok, dest_path,
          DedupRecord(input, force_copy, dest_path), order)

(* Lines 227-237: a file already at the destination ends the call when it  *)
(* is identical, and otherwise makes the new file take a stamped name.     *)
AtDestination(input, enable_csv_log, force_copy, copy_ok, dest0, order) ==
    LET exists    == dest0 \in DOMAIN destFiles
        identical == exists /\ input.file.readable
                     /\ destFiles[dest0] = Content(input.file)
    IN  IF identical
        THEN NoDedup @@ [result |-> "skipped", path |-> Some(dest0),
                         why |-> "already exists, identical"]
        ELSE DedupBlock(input, enable_csv_log, force_copy, copy_ok,
                        IF exists THEN Stamped(dest0, input.date_taken) ELSE dest0,
                        order)

copy_photo_with_metadata(input, enable_csv_log, force_copy, system, copy_ok, order) ==
    LET early == EarlySkip(input, force_copy, system)
    IN  IF early /= ""
        THEN NoDedup @@ [result |-> "skipped", path |-> None, why |-> early]
        ELSE AtDestination(input, enable_csv_log, force_copy, copy_ok,
                           construct_dest_path(input.path, input.date_taken), order)

(* The call as one step: its effect on the index and on the destination.   *)
Effect(input, enable_csv_log, force_copy, copy_ok, out) ==
    /\ IF IsSome(out.add)
       THEN add_record(Val(out.add))
       ELSE UNCHANGED <<indexVars, returned>>
    /\ destFiles' =
           IF IsSome(out.write)
           THEN [q \in DOMAIN destFiles \cup {Val(out.write)} |->
                    IF q = Val(out.write) THEN Content(input.file)
                    ELSE destFiles[q]]
           ELSE destFiles
    /\ lastOp' = [op             |-> "copy_photo",
                  input          |-> input,
                  enable_csv_log |-> enable_csv_log,
                  force_copy     |-> force_copy,
                  copy_ok        |-> copy_ok,
                  result         |-> out.result,
                  path           |-> out.path,
                  why            |-> out.why,
                  built          |-> out.built,
                  score          |-> out.score,
                  match          |-> out.match,
                  calls_before   |-> Len(returned),
                  dest_before    |-> destFiles]

CopyPhoto(input, enable_csv_log, force_copy, system, copy_ok, order) ==
    /\ Idle
    /\ next_id <= MaxRecords
    /\ copy_ok => input.file.readable
    /\ Effect(input, enable_csv_log, force_copy, copy_ok,
              copy_photo_with_metadata(input, enable_csv_log, force_copy,
                                       system, copy_ok, order))
    /\ UNCHANGED <<simLeft, simRight, extVars>>

OrgNext ==
    \/ /\ Idle
       /\ next_id <= MaxRecords
       /\ \E input \in Inputs,
             enable_csv_log, force_copy, system, copy_ok \in BOOLEAN :
              \E order \in Orders(_gather_candidate_ids(
                                      DedupRecord(input, force_copy, input.path))) :
                  CopyPhoto(input, enable_csv_log, force_copy, system, copy_ok,
                            order)
    \/ Return

SpecOrg == Init /\ [][OrgNext]_vars

----------------------------------------------------------------------------
(* The index shared by worker threads, as process_files_parallel shares it *)
(* with no lock around it: one thread is inside add_record while another   *)
(* is inside find_best_match.  A step is one operation on one container    *)
(* (a dict store, a set add, a set union with a set read from a map),      *)
(* which the interpreter carries out without switching threads.            *)

ConcInputs == {input \in Inputs : input.file.size = SizeBucketArg}

(* The files indexed beforehand lie in one directory and the file being    *)
(* added in the other; the file being matched lies in either.              *)
PreloadInputs == {input \in ConcInputs : input.path.dir = "a"}

WriterInputs == {input \in ConcInputs : input.path.dir = "b"}

(* Mutant: the identity goes into the inverted maps before the record is   *)
(* stored.                                                                 *)
WriterSteps_store_last ==
    <<"take_id", "by_partial_hash", "by_size_exact", "bucket_lo",
      "bucket_mid", "bucket_hi", "by_resolution", "by_name", "store", "done">>

(* The positions of add_record, in program order (lines 103-128).          *)
WriterSteps ==
    <<"take_id", "store", "by_partial_hash", "by_size_exact", "bucket_lo",
      "bucket_mid", "bucket_hi", "by_resolution", "by_name", "done">>

(* The positions of _gather_candidate_ids (lines 161-183), followed by the *)
(* loop of find_best_match (lines 89-99).                                  *)
ReaderSteps ==
    <<"by_partial_hash", "by_size_exact", "bucket_lo", "bucket_mid",
      "bucket_hi", "by_resolution", "by_name", "iterate", "loop", "done">>

After(steps, pc) ==
    steps[(CHOOSE i \in DOMAIN steps : steps[i] = pc) + 1]

GatherSteps == {ReaderSteps[i] : i \in 1..7}

ConcInit ==
    /\ IndexInit
    /\ returned = <<>>
    /\ destFiles = EmptyMap
    /\ lastOp = NoOp
    /\ ExtInit
    /\ simLeft = None
    /\ simRight = None

ThreadsIdle == writer.pc = "idle" /\ reader.pc = "idle"

(* Records added before the threads run, one call at a time.               *)
Preload(input) ==
    /\ ThreadsIdle
    /\ next_id < MaxRecords
    /\ add_record(RecordOf(input))
    /\ UNCHANGED <<destFiles, lastOp, simLeft, simRight, extVars>>

(* add_record is entered: record = dict(record).                           *)
StartWriter(input) ==
    /\ writer.pc = "idle"
    /\ next_id <= MaxRecords
    /\ writer' = [pc |-> "take_id", record |-> RecordOf(input), id |-> 0]
    /\ UNCHANGED <<indexVars, returned, destFiles, lastOp, simLeft, simRight, poolVars,
                   reader, cacheVars, workers>>

(* One step of add_record.                                                 *)
WriterStep ==
    LET record    == writer.record
        record_id == writer.id
        bucket    == Bucket(record.size)
        pc        == writer.pc
    IN  /\ pc \notin {"idle", "done"}
        /\ writer' =
               IF pc = "take_id"
               THEN [writer EXCEPT !.pc = After(WriterSteps, pc), !.id = next_id,
                                   !.record = Stored(record, next_id)]
               ELSE [writer EXCEPT !.pc = After(WriterSteps, pc)]
        /\ next_id' = IF pc = "take_id" THEN next_id + 1 ELSE next_id
        /\ records' =
               IF pc = "store"
               THEN [k \in DOMAIN records \cup {record_id} |->
                        IF k = record_id THEN record ELSE records[k]]
               ELSE records
        /\ by_partial_hash' =
               IF pc = "by_partial_hash" /\ IsSome(record.partial_hash)
               THEN MapAdd(by_partial_hash, Val(record.partial_hash), record_id)
               ELSE by_partial_hash
        /\ by_size_exact' =
               IF pc = "by_size_exact"
               THEN MapAdd(by_size_exact, record.size, record_id)
               ELSE by_size_exact
        /\ by_size_bucket' =
               CASE pc = "bucket_lo"  -> MapAdd(by_size_bucket, bucket - 1, record_id)
                 [] pc = "bucket_mid" -> MapAdd(by_size_bucket, bucket, record_id)
                 [] pc = "bucket_hi"  -> MapAdd(by_size_bucket, bucket + 1, record_id)
                 [] OTHER             -> by_size_bucket
        /\ by_resolution' =
               IF /\ pc = "by_resolution"
                  /\ IsSome(record.resolution) /\ Val(record.resolution) > 0
               THEN MapAdd(by_resolution, Val(record.resolution), record_id)
               ELSE by_resolution
        /\ by_name' =
               IF pc = "by_name" /\ record.normalized_name /= <<>>
               THEN MapAdd(by_name, record.normalized_name, record_id)
               ELSE by_name
        /\ returned' = IF After(WriterSteps, pc) = "done"
                       THEN Append(returned, record_id)
                       ELSE returned
        /\ UNCHANGED <<destFiles, lastOp, simLeft, simRight, poolVars, reader, cacheVars, workers>>

(* find_best_match is entered with a record the caller has built.          *)
StartReader(input) ==
    /\ reader.pc = "idle"
    /\ reader' = [pc         |-> "by_partial_hash",
                  record     |-> RecordOf(input),
                  candidates |-> {},
                  got        |-> [m \in GatherSteps |-> {}],
                  order      |-> <<>>,
                  k          |-> 1,
                  best       |-> [score |-> 0, match |-> None]]
    /\ UNCHANGED <<indexVars, returned, destFiles, lastOp, simLeft, simRight, poolVars,
                   writer, cacheVars, workers>>

(* What one step of _gather_candidate_ids reads from the index.            *)
GatherRead(record, pc) ==
    CASE pc = "by_partial_hash" ->
             IF IsSome(record.partial_hash)
             THEN Lookup(by_partial_hash, Val(record.partial_hash))
             ELSE {}
      [] pc = "by_size_exact" -> Lookup(by_size_exact, record.size)
      [] pc = "bucket_lo"  -> Lookup(by_size_bucket, Bucket(record.size) - 1)
      [] pc = "bucket_mid" -> Lookup(by_size_bucket, Bucket(record.size))
      [] pc = "bucket_hi"  -> Lookup(by_size_bucket, Bucket(record.size) + 1)
      [] pc = "by_resolution" ->
             IF IsSome(record.resolution) /\ Val(record.resolution) > 0
             THEN Lookup(by_resolution, Val(record.resolution))
             ELSE {}
      [] pc = "by_name" ->
             IF record.normalized_name /= <<>>
             THEN Lookup(by_name, record.normalized_name)
             ELSE {}

(* candidates |= <the set under the record's key>.                         *)
ReaderGather ==
    /\ reader.pc \in GatherSteps
    /\ reader' = [reader EXCEPT
                     !.pc = After(ReaderSteps, reader.pc),
                     !.candidates = @ \cup GatherRead(reader.record, reader.pc),
                     !.got[reader.pc] = GatherRead(reader.record, reader.pc)]
    /\ UNCHANGED <<indexVars, returned, destFiles, lastOp, simLeft, simRight, poolVars,
                   writer, cacheVars, workers>>

(* The for loop starts: the set yields its members in some order.          *)
ReaderIterate(order) ==
    /\ reader.pc = "iterate"
    /\ reader' = [reader EXCEPT !.pc = "loop", !.order = order]
    /\ UNCHANGED <<indexVars, returned, destFiles, lastOp, simLeft, simRight, poolVars,
                   writer, cacheVars, workers>>

(* One iteration of the loop, or its end.                                  *)
ReaderLoop ==
    /\ reader.pc = "loop"
    /\ reader' =
           IF reader.k > Len(reader.order)
           THEN [reader EXCEPT !.pc = "done"]
           ELSE LET candidate_id == reader.order[reader.k]
                    present == candidate_id \in DOMAIN records
                    same    == records[candidate_id].src_path
                                   = reader.record.src_path
                    score   == _calculate_similarity(reader.record,
                                                     records[candidate_id])
                IN  IF ~present \/ same \/ score <= reader.best.score
                    THEN [reader EXCEPT !.k = @ + 1]
                    ELSE [reader EXCEPT
                             !.k = @ + 1,
                             !.best = [score |-> score,
                                       match |-> Some(records[candidate_id])]]
    /\ UNCHANGED <<indexVars, returned, destFiles, lastOp, simLeft, simRight, poolVars,
                   writer, cacheVars, workers>>

(* The orders the loop can take, once the candidates are gathered.         *)
IterationOrders ==
    IF reader.pc = "iterate" THEN Orders(reader.candidates) ELSE {}

ConcNext ==
    \/ \E input \in PreloadInputs : Preload(input)
    \/ \E input \in WriterInputs : StartWriter(input)
    \/ WriterStep
    \/ \E input \in ConcInputs : StartReader(input)
    \/ ReaderGather
    \/ \E order \in IterationOrders : ReaderIterate(order)
    \/ ReaderLoop

SpecConc == ConcInit /\ [][ConcNext]_vars

----------------------------------------------------------------------------
(* FastHashCache: get_hash called for files that change on disk between    *)
(* the calls.  cache and access_count always hold the same keys in the     *)
(* same insertion order, so they are one sequence of entries here.         *)

MaxAccess == 3

MaxEntriesChoices == {0, 1, 2}

CachePaths == {"p", "q"}

Absent == [exists |-> FALSE]

(* What can be at a path: nothing, or a file with its size, mtime and      *)
(* leading bytes that can or cannot be read.                               *)
DiskFiles ==
    {Absent,
     [exists |-> TRUE, head |-> 1, size |-> 10, mtime |-> 0, readable |-> TRUE],
     [exists |-> TRUE, head |-> 1, size |-> 20, mtime |-> 0, readable |-> TRUE],
     [exists |-> TRUE, head |-> 1, size |-> 10, mtime |-> 20, readable |-> TRUE],
     [exists |-> TRUE, head |-> 1, size |-> 10, mtime |-> 0, readable |-> FALSE]}

(* compute_smart_hash, the default hash_func: a digest of what it reads,   *)
(* or None when the file cannot be read.                                   *)
compute_smart_hash(file) ==
    IF file.readable THEN Some([head |-> file.head, size |-> file.size])
    ELSE None

CacheInit ==
    /\ IndexInit
    /\ returned = <<>>
    /\ destFiles = EmptyMap
    /\ lastOp = NoOp
    /\ simLeft = None
    /\ simRight = None
    /\ writer = NoThread
    /\ reader = NoThread
    /\ cache = <<>>
    /\ access_count = <<>>
    /\ max_entries \in MaxEntriesChoices
    /\ disk \in [CachePaths -> DiskFiles]
    /\ calls = <<>>
    /\ workers = <<>>
    /\ progress = ProgressInit
    /\ run = NoThread

CacheKey(filepath, file) == <<filepath, file.size, file.mtime>>

Position(cache_key) ==
    IF \E i \in DOMAIN cache : cache[i].key = cache_key
    THEN CHOOSE i \in DOMAIN cache : cache[i].key = cache_key
    ELSE 0

(* Mutant: the entry inserted last is the one evicted. *)
LruPosition_last ==
    Len(cache)

(* min(self.access_count.items(), key=lambda x: x[1]): the first entry, in *)
(* insertion order, whose count is minimal.                                *)
LruPosition ==
    CHOOSE i \in DOMAIN cache :
        /\ \A j \in DOMAIN cache : cache[i].count <= cache[j].count
        /\ \A j \in 1..(i - 1) : cache[j].count > cache[i].count

Without(seq, i) == SubSeq(seq, 1, i - 1) \o SubSeq(seq, i + 1, Len(seq))

(* Mutant: a miss stores what the hash function returned, None included. *)
Cacheable_always(file_hash) == TRUE

(* `if file_hash:` (line 165).                                             *)
Cacheable(file_hash) == IsSome(file_hash)

(* One call of get_hash: what it returns and what it leaves in the cache.  *)
get_hash(filepath) ==
    LET file      == disk[filepath]
        cache_key == CacheKey(filepath, file)
        at        == Position(cache_key)
        file_hash == compute_smart_hash(file)
        full      == Len(cache) >= max_entries
        call      == [path |-> filepath, key |-> None, value |-> None,
                      invoked |-> FALSE, evicted |-> None, before |-> cache]
    IN  IF ~file.exists
        THEN [cache |-> cache, call |-> call]
        ELSE IF at /= 0
        THEN [cache |-> [cache EXCEPT ![at].count = @ + 1],
              call  |-> [call EXCEPT !.key = Some(cache_key),
                                     !.value = cache[at].hash]]
        ELSE IF ~Cacheable(file_hash)
        THEN [cache |-> cache,
              call  |-> [call EXCEPT !.key = Some(cache_key), !.invoked = TRUE]]
        ELSE IF full /\ cache = <<>>
        THEN [cache |-> cache,
              call  |-> [call EXCEPT !.key = Some(cache_key), !.invoked = TRUE]]
        ELSE [cache |-> Append(IF full THEN Without(cache, LruPosition) ELSE cache,
                               [key |-> cache_key, hash |-> file_hash, count |-> 1]),
              call  |-> [call EXCEPT
                            !.key = Some(cache_key),
                            !.value = file_hash,
                            !.invoked = TRUE,
                            !.evicted = IF full THEN Some(cache[LruPosition].key)
                                        ELSE None]]

Remember(call) ==
    IF calls = <<>> THEN <<call>>
    ELSE <<[calls[Len(calls)] EXCEPT !.before = <<>>], call>>

GetHash(filepath) ==
    /\ disk[filepath].exists =>
           \A i \in DOMAIN cache :
               cache[i].key = CacheKey(filepath, disk[filepath]) =>
                   cache[i].count < MaxAccess
    /\ cache' = get_hash(filepath).cache
    /\ calls' = Remember(get_hash(filepath).call)
    /\ UNCHANGED <<indexVars, returned, destFiles, lastOp, simLeft, simRight, poolVars,
                   threadVars, access_count, max_entries, disk>>

(* The file at a path is replaced, rewritten or removed between calls.     *)
Touch(filepath, file) ==
    /\ file /= disk[filepath]
    /\ disk' = [disk EXCEPT ![filepath] = file]
    /\ UNCHANGED <<indexVars, returned, destFiles, lastOp, simLeft, simRight, poolVars,
                   threadVars, cache, access_count, max_entries, calls>>

CacheNext ==
    \/ \E filepath \in CachePaths : GetHash(filepath)
    \/ \E filepath \in CachePaths, file \in DiskFiles : Touch(filepath, file)

SpecCache == CacheInit /\ [][CacheNext]_vars

----------------------------------------------------------------------------
(* build_record on paths that may not be there, and seed_from_directory    *)
(* walking a directory of such paths.                                      *)

(* Mutant: a failing stat is swallowed and an empty record is returned. *)
TryBuildRecord_swallow(src_path, file, width, height, date_taken, dest_path) ==
    Some(build_record(src_path,
                      [head |-> 0, size |-> 0, mtime |-> 0, readable |-> FALSE],
                      width, height, date_taken, dest_path))

(* build_record as called: os.stat (line 63) raises for a path that is not *)
(* there, and nothing catches it; None stands for the raised error.        *)
TryBuildRecord(src_path, file, width, height, date_taken, dest_path) ==
    IF file = Absent THEN None
    ELSE Some(build_record(src_path, file, width, height, date_taken, dest_path))

EndsWith(s, suffix) ==
    /\ Len(s) >= Len(suffix)
    /\ SubSeq(s, Len(s) - Len(suffix) + 1, Len(s)) = suffix

SupportedExts == {<<".", "j">>}

SeedPaths == {[dir |-> "d", name |-> n] : n \in FileNames}

(* A file that reads, one that does not, and a name with nothing behind it *)
(* (a dangling link, or a file removed after the walk listed it).          *)
SeedFiles ==
    {[head |-> 1, size |-> 65536, mtime |-> 0, readable |-> TRUE],
     [head |-> 1, size |-> 65536, mtime |-> 0, readable |-> FALSE],
     Absent}

SeedEntries == [path : SeedPaths, file : SeedFiles]

(* What os.walk yields: the entries of the directory in some order.        *)
Directories ==
    UNION {{d \in [1..n -> SeedEntries] :
               \A i, j \in 1..n : i /= j => d[i].path /= d[j].path} :
           n \in 0..MaxRecords}

(* Mutant: the record is added as build_record returned it. *)
Seeded_pending(record, filepath) == record

(* Mutant: the seed pass marks its records as copied. *)
Seeded_copied(record, filepath) ==
    [record EXCEPT !.status = "copied", !.final_path = Some(filepath)]

(* Lines 149-150: record["status"], record["final_path"].                  *)
Seeded(record, filepath) ==
    [record EXCEPT !.status = "seeded", !.final_path = Some(filepath)]

Supported(entry) ==
    \E ext \in SupportedExts : EndsWith(LowerStr(entry.path.name), LowerStr(ext))

SeedInit == Init

(* seed_from_directory is entered: added = 0.                              *)
SeedStart(directory, log_given) ==
    /\ Idle
    /\ next_id + Len(directory) <= MaxRecords + 1
    /\ lastOp' = [op             |-> "seeding",
                  directory      |-> directory,
                  todo           |-> directory,
                  log_given      |-> log_given,
                  added          |-> 0,
                  logged         |-> <<>>,
                  calls_before   |-> Len(returned),
                  records_before |-> records]
    /\ UNCHANGED <<indexVars, returned, destFiles, simLeft, simRight, extVars>>

(* One file of the walk (lines 143-155), or the return (line 156).         *)
SeedFile ==
    /\ lastOp.op = "seeding"
    /\ IF lastOp.todo = <<>>
       THEN /\ lastOp' = [lastOp EXCEPT !.op = "seed"]
            /\ UNCHANGED <<indexVars, returned>>
       ELSE LET entry    == Head(lastOp.todo)
                filepath == entry.path
                built    == TryBuildRecord(filepath, entry.file, None, None, None,
                                           Some(filepath))
            IN  IF ~Supported(entry)
                THEN /\ lastOp' = [lastOp EXCEPT !.todo = Tail(@)]
                     /\ UNCHANGED <<indexVars, returned>>
                ELSE IF IsSome(built)
                THEN /\ add_record(Seeded(Val(built), filepath))
                     /\ lastOp' = [lastOp EXCEPT !.todo = Tail(@),
                                                 !.added = @ + 1]
                ELSE /\ lastOp' =
                            [lastOp EXCEPT
                                !.todo = Tail(@),
                                !.logged = IF lastOp.log_given
                                           THEN Append(@, filepath) ELSE @]
                     /\ UNCHANGED <<indexVars, returned>>
    /\ UNCHANGED <<destFiles, simLeft, simRight, extVars>>

(* build_record called on its own by a caller that passes what it knows.   *)
BuildRecord(entry, dims, date_taken) ==
    /\ Idle
    /\ lastOp' = [op           |-> "build_record",
                  entry        |-> entry,
                  built        |-> TryBuildRecord(entry.path, entry.file, dims[1],
                                                  dims[2], date_taken, None),
                  index_before |-> indexVars]
    /\ UNCHANGED <<indexVars, returned, destFiles, simLeft, simRight, extVars>>

SeedNext ==
    \/ \E directory \in Directories, log_given \in BOOLEAN :
           SeedStart(directory, log_given)
    \/ SeedFile
    \/ \E entry \in SeedEntries, dims \in SimDims, date_taken \in SimDates :
           BuildRecord(entry, dims, date_taken)
    \/ Return

SpecSeed == SeedInit /\ [][SeedNext]_vars

----------------------------------------------------------------------------
(* Construction of the index with arguments of the caller's choosing.      *)
(* Thresholds are in hundredths, as the scores are.                        *)

ThresholdArgs == {-100, 0, LogThreshold, StrictThreshold, 10000, 15000}

BucketArgs == {-1, 0, MinBucketBytes, SizeBucketArg}

(* DeduplicationIndex.__init__: the attributes of the object it leaves.    *)
DeduplicationIndex(strict_threshold, log_threshold, partial_hash_bytes, size_bucket_bytes) ==
    [raised             |-> FALSE,
     strict_threshold   |-> strict_threshold,
     log_threshold      |-> log_threshold,
     partial_hash_bytes |-> partial_hash_bytes,
     size_bucket_bytes  |-> Max(MinBucketBytes, size_bucket_bytes)]

CtorInit == Init

Construct(strict_threshold, log_threshold, size_bucket_bytes) ==
    /\ Idle
    /\ lastOp' = [op     |-> "construct",
                  args   |-> [strict_threshold  |-> strict_threshold,
                              log_threshold     |-> log_threshold,
                              size_bucket_bytes |-> size_bucket_bytes],
                  object |-> DeduplicationIndex(strict_threshold, log_threshold,
                                                PartialHashBytes,
                                                size_bucket_bytes)]
    /\ records' = EmptyMap
    /\ next_id' = 1
    /\ by_partial_hash' = EmptyMap
    /\ by_size_exact' = EmptyMap
    /\ by_size_bucket' = EmptyMap
    /\ by_resolution' = EmptyMap
    /\ by_name' = EmptyMap
    /\ returned' = <<>>
    /\ UNCHANGED <<destFiles, simLeft, simRight, extVars>>

CtorNext ==
    \/ \E strict_threshold \in ThresholdArgs, log_threshold \in ThresholdArgs,
          size_bucket_bytes \in BucketArgs :
           Construct(strict_threshold, log_threshold, size_bucket_bytes)
    \/ Return

SpecCtor == CtorInit /\ [][CtorNext]_vars

----------------------------------------------------------------------------
(* The caller goes on using the dict it passed to add_record, as           *)
(* copy_photo_with_metadata and seed_from_directory set status and         *)
(* final_path on theirs.                                                   *)

(* Mutant: the index keeps the caller's dict itself. *)
SharesCallerDict_alias == TRUE

(* Line 103: record = dict(record) is a new dict, and the values it holds  *)
(* (str, int, float, None) cannot be changed in place.                     *)
SharesCallerDict == FALSE

CallerStatuses == {"copied", "error"}

CallerMutates(status, final_path, similarity) ==
    /\ lastOp.op = "add_record"
    /\ LET changed == [lastOp.record EXCEPT !.status = status,
                                            !.final_path = final_path,
                                            !.similarity = similarity]
       IN  /\ lastOp' = [lastOp EXCEPT !.op = "caller_mutated",
                                       !.record = changed]
           /\ records' = IF SharesCallerDict
                         THEN [records EXCEPT ![lastOp.id] =
                                                  Stored(changed, lastOp.id)]
                         ELSE records
    /\ UNCHANGED <<next_id, by_partial_hash, by_size_exact, by_size_bucket,
                   by_resolution, by_name, returned, destFiles, simLeft,
                   simRight, extVars>>

FrameInit == Init

FrameNext ==
    \/ \E input \in Inputs : AddRecord(input)
    \/ \E status \in CallerStatuses, final_path \in {None} \cup {Some(q) : q \in Paths},
          similarity \in {None, Some(StrictThreshold)} :
           CallerMutates(status, final_path, similarity)
    \/ Return

SpecFrame == FrameInit /\ [][FrameNext]_vars

----------------------------------------------------------------------------
(* The parallel pipeline: the pool's workers run process_file_batch, each  *)
(* calling copy_photo_with_metadata on its files with the one shared       *)
(* index.  A worker is switched out only between the calls it makes on     *)
(* the index and the file system; CSV logging is off.                      *)

WorkerIds == {1, 2}

ParInputs ==
    {input \in ConcInputs : IsSome(input.dims[1]) /\ IsSome(input.date_taken)}

IdleWorker == [pc |-> "idle"]

ParInit ==
    /\ IndexInit
    /\ returned = <<>>
    /\ destFiles = EmptyMap
    /\ lastOp = NoOp
    /\ simLeft = None
    /\ simRight = None
    /\ writer = NoThread
    /\ reader = NoThread
    /\ cache = <<>>
    /\ access_count = <<>>
    /\ max_entries = 0
    /\ disk = EmptyMap
    /\ calls = <<>>
    /\ workers = [w \in WorkerIds |-> IdleWorker]
    /\ progress = ProgressInit
    /\ run = NoThread

InFlight ==
    Cardinality({w \in WorkerIds : workers[w].pc \in {"match", "copy", "add"}})

(* Mutant: the workers copy whatever the match says. *)
WorkerOutcome_forced(input, order) ==
    copy_photo_with_metadata(input, FALSE, TRUE, FALSE, TRUE, order)

(* What the call decides once find_best_match has returned (line 254).     *)
WorkerOutcome(input, order) ==
    copy_photo_with_metadata(input, FALSE, FALSE, FALSE, TRUE, order)

(* The worker takes the next file of its batch.                            *)
WorkerStart(w, input) ==
    /\ workers[w].pc \in {"idle", "done"}
    /\ (next_id - 1) + InFlight < MaxRecords
    /\ workers' = [workers EXCEPT ![w] = [pc |-> "match", input |-> input]]
    /\ UNCHANGED <<indexVars, returned, destFiles, lastOp, simLeft, simRight, poolVars,
                   writer, reader, cacheVars>>

(* Lines 227-292: the record is built and matched against the index as it  *)
(* is now; `seen` is the number of records the index held at that time.    *)
WorkerMatch(w, order) ==
    /\ workers[w].pc = "match"
    /\ \E out \in {WorkerOutcome(workers[w].input, order)} :
           workers' = [workers EXCEPT
                          ![w] = [pc    |-> IF IsSome(out.write) THEN "copy"
                                            ELSE IF IsSome(out.add) THEN "add"
                                            ELSE "done",
                                  input |-> workers[w].input,
                                  out   |-> out,
                                  seen  |-> Len(returned),
                                  id    |-> 0]]
    /\ UNCHANGED <<indexVars, returned, destFiles, lastOp, simLeft, simRight, poolVars,
                   writer, reader, cacheVars>>

(* Lines 294-298: shutil.copy2.                                            *)
WorkerCopy(w) ==
    /\ workers[w].pc = "copy"
    /\ destFiles' =
           [q \in DOMAIN destFiles \cup {Val(workers[w].out.write)} |->
               IF q = Val(workers[w].out.write)
               THEN Content(workers[w].input.file)
               ELSE destFiles[q]]
    /\ workers' = [workers EXCEPT ![w].pc = "add"]
    /\ UNCHANGED <<indexVars, returned, lastOp, simLeft, simRight, poolVars,
                   writer, reader, cacheVars>>

(* Lines 276-279 and 301-305: add_record, and the call returns.            *)
WorkerAdd(w) ==
    /\ workers[w].pc = "add"
    /\ add_record(Val(workers[w].out.add))
    /\ workers' = [workers EXCEPT ![w].pc = "done", ![w].id = next_id]
    /\ UNCHANGED <<destFiles, lastOp, simLeft, simRight, poolVars,
                   writer, reader, cacheVars>>

MatchOrders(w) ==
    IF workers[w].pc = "match"
    THEN Orders(_gather_candidate_ids(
                    DedupRecord(workers[w].input, FALSE, workers[w].input.path)))
    ELSE {}

ParNext ==
    \E w \in WorkerIds :
        \/ \E input \in ParInputs : WorkerStart(w, input)
        \/ \E order \in MatchOrders(w) : WorkerMatch(w, order)
        \/ WorkerCopy(w)
        \/ WorkerAdd(w)

SpecPar == ParInit /\ [][ParNext]_vars

----------------------------------------------------------------------------
(* Several workers inside add_record at once.  Nothing in the code makes   *)
(* lines 104-107 one step: record_id = self._next_id reads the counter,    *)
(* self._next_id += 1 reads it again and writes it back, and the store     *)
(* into _records comes after; a thread can be switched out between any two *)
(* of these.  The registrations in the inverted maps (lines 109-126) are   *)
(* set additions, which commute, and are taken together.                   *)

AdderSteps ==
    <<"read_id", "load_next", "store_next", "store", "register", "done">>

AddersInit ==
    /\ IndexInit
    /\ returned = <<>>
    /\ destFiles = EmptyMap
    /\ lastOp = NoOp
    /\ simLeft = None
    /\ simRight = None
    /\ writer = NoThread
    /\ reader = NoThread
    /\ cache = <<>>
    /\ access_count = <<>>
    /\ max_entries = 0
    /\ disk = EmptyMap
    /\ calls = <<>>
    /\ workers = [w \in WorkerIds |-> IdleWorker]
    /\ progress = ProgressInit
    /\ run = NoThread

Adding == {w \in WorkerIds : workers[w].pc \notin {"idle", "done"}}

(* add_record is entered: record = dict(record).                           *)
AdderStart(w, input) ==
    /\ workers[w].pc \in {"idle", "done"}
    /\ Len(returned) + Cardinality(Adding) < MaxRecords
    /\ workers' = [workers EXCEPT
                      ![w] = [pc |-> "read_id", record |-> RecordOf(input),
                              record_id |-> 0, loaded |-> 0]]
    /\ UNCHANGED <<indexVars, returned, destFiles, lastOp, simLeft, simRight, poolVars,
                   writer, reader, cacheVars>>

(* One step of add_record in worker w.                                     *)
AdderStep(w) ==
    LET me        == workers[w]
        pc        == me.pc
        record    == me.record
        record_id == me.record_id
        bucket    == Bucket(record.size)
    IN  /\ w \in Adding
        /\ workers' =
               [workers EXCEPT
                   ![w] = CASE pc = "read_id" ->
                                   [me EXCEPT !.pc = "load_next",
                                              !.record_id = next_id,
                                              !.record = Stored(record, next_id)]
                            [] pc = "load_next" ->
                                   [me EXCEPT !.pc = "store_next",
                                              !.loaded = next_id]
                            [] OTHER ->
                                   [me EXCEPT !.pc = After(AdderSteps, pc)]]
        /\ next_id' = IF pc = "store_next" THEN me.loaded + 1 ELSE next_id
        /\ records' =
               IF pc = "store"
               THEN [k \in DOMAIN records \cup {record_id} |->
                        IF k = record_id THEN record ELSE records[k]]
               ELSE records
        /\ by_partial_hash' =
               IF pc = "register" /\ IsSome(record.partial_hash)
               THEN MapAdd(by_partial_hash, Val(record.partial_hash), record_id)
               ELSE by_partial_hash
        /\ by_size_exact' =
               IF pc = "register"
               THEN MapAdd(by_size_exact, record.size, record_id)
               ELSE by_size_exact
        /\ by_size_bucket' =
               IF pc = "register"
               THEN MapAdd(MapAdd(MapAdd(by_size_bucket, bucket - 1, record_id),
                                  bucket, record_id),
                           bucket + 1, record_id)
               ELSE by_size_bucket
        /\ by_resolution' =
               IF /\ pc = "register"
                  /\ IsSome(record.resolution) /\ Val(record.resolution) > 0
               THEN MapAdd(by_resolution, Val(record.resolution), record_id)
               ELSE by_resolution
        /\ by_name' =
               IF pc = "register" /\ record.normalized_name /= <<>>
               THEN MapAdd(by_name, record.normalized_name, record_id)
               ELSE by_name
        /\ returned' = IF pc = "register" THEN Append(returned, record_id)
                       ELSE returned
        /\ UNCHANGED <<destFiles, lastOp, simLeft, simRight, poolVars,
                       writer, reader, cacheVars>>

AddersNext ==
    \E w \in WorkerIds :
        \/ \E input \in ConcInputs : AdderStart(w, input)
        \/ AdderStep(w)

SpecAdders == AddersInit /\ [][AddersNext]_vars

----------------------------------------------------------------------------
(* FastHashCache statement by statement: cache and access_count are two    *)
(* dictionaries, each a sequence of entries in insertion order, and        *)
(* get_hash is a sequence of operations on them.  Run to its end without   *)
(* interruption it is the single-threaded call; interleaved with the steps *)
(* of another worker it is the cache shared by a pool.                     *)

(* What hash_func returns for a file: a digest, an empty string or None.   *)
HashFiles ==
    {Absent,
     [exists |-> TRUE, head |-> 1, size |-> 10, mtime |-> 0, hashes |-> "digest"],
     [exists |-> TRUE, head |-> 1, size |-> 20, mtime |-> 0, hashes |-> "digest"],
     [exists |-> TRUE, head |-> 1, size |-> 10, mtime |-> 0, hashes |-> "empty"],
     [exists |-> TRUE, head |-> 1, size |-> 10, mtime |-> 0, hashes |-> "none"]}

hash_func(file) ==
    CASE file.hashes = "digest" -> Some(<<file.head, file.size>>)
      [] file.hashes = "empty"  -> Some(<<>>)
      [] OTHER                  -> None

(* Mutant: whatever the hash function returned counts as a fingerprint. *)
Truthy_always(file_hash) == TRUE

(* `if file_hash:` (line 165): neither None nor the empty string.          *)
Truthy(file_hash) == IsSome(file_hash) /\ Val(file_hash) /= <<>>

Has(dict, key) == \E i \in DOMAIN dict : dict[i].key = key

At(dict, key) == CHOOSE i \in DOMAIN dict : dict[i].key = key

Del(dict, key) == Without(dict, At(dict, key))

(* dict[key] = entry: in place when the key is there, at the end if not.   *)
Put(dict, key, entry) ==
    IF Has(dict, key) THEN [dict EXCEPT ![At(dict, key)] = entry]
    ELSE Append(dict, entry)

(* min(self.access_count.items(), key=lambda x: x[1])[0] (line 168).       *)
MinKey(counts) ==
    LET i == CHOOSE i \in DOMAIN counts :
                 /\ \A j \in DOMAIN counts : counts[i].count <= counts[j].count
                 /\ \A j \in 1..(i - 1) : counts[j].count > counts[i].count
    IN  counts[i].key

(* Mutant: the cache is full only once it holds more than max_entries. *)
Full_late(entries, limit) == Len(entries) > limit

(* `if len(self.cache) >= self.max_entries:` (line 167).                   *)
Full(entries, limit) == Len(entries) >= limit

(* A call of get_hash about to start, and one that has returned.           *)
Calling(filepath, file) ==
    [pc |-> "stat", path |-> filepath, file |-> file, cache_key |-> <<>>,
     file_hash |-> None, lru_key |-> <<>>, invoked |-> FALSE,
     raised |-> FALSE, value |-> None]

Returns(me, value) == [me EXCEPT !.pc = "done", !.value = value]

(* `except Exception: return None` (lines 178-179).                        *)
Raises(me) == [me EXCEPT !.pc = "done", !.value = None, !.raised = TRUE]

(* The next operation of a get_hash call on the two dictionaries.          *)
GetHashStep(st) ==
    LET me == st.me
        pc == me.pc
        c  == st.cache
        a  == st.access_count
        k  == me.cache_key
    IN  CASE pc = "stat" ->
                 IF me.file.exists
                 THEN [st EXCEPT !.me = [me EXCEPT
                                            !.pc = "check",
                                            !.cache_key = CacheKey(me.path, me.file)]]
                 ELSE [st EXCEPT !.me = Raises(me)]
          [] pc = "check" ->
                 [st EXCEPT !.me.pc = IF Has(c, k) THEN "bump" ELSE "hash"]
          [] pc = "bump" ->
                 [st EXCEPT
                     !.access_count =
                         Put(a, k, [key |-> k,
                                    count |-> (IF Has(a, k) THEN a[At(a, k)].count
                                               ELSE 0) + 1]),
                     !.me.pc = "read"]
          [] pc = "read" ->
                 IF Has(c, k)
                 THEN [st EXCEPT !.me = Returns(me, c[At(c, k)].hash)]
                 ELSE [st EXCEPT !.me = Raises(me)]
          [] pc = "hash" ->
                 LET file_hash == hash_func(me.file)
                     called    == [me EXCEPT !.file_hash = file_hash,
                                             !.invoked = TRUE]
                 IN  IF Truthy(file_hash)
                     THEN [st EXCEPT !.me = [called EXCEPT !.pc = "full"]]
                     ELSE [st EXCEPT !.me = Returns(called, file_hash)]
          [] pc = "full" ->
                 [st EXCEPT !.me.pc = IF Full(c, st.max_entries) THEN "min"
                                      ELSE "put_cache"]
          [] pc = "min" ->
                 IF a = <<>>
                 THEN [st EXCEPT !.me = Raises(me)]
                 ELSE [st EXCEPT !.me = [me EXCEPT !.pc = "del_cache",
                                                   !.lru_key = MinKey(a)]]
          [] pc = "del_cache" ->
                 IF Has(c, me.lru_key)
                 THEN [st EXCEPT !.cache = Del(c, me.lru_key),
                                 !.me.pc = "del_count"]
                 ELSE [st EXCEPT !.me = Raises(me)]
          [] pc = "del_count" ->
                 IF Has(a, me.lru_key)
                 THEN [st EXCEPT !.access_count = Del(a, me.lru_key),
                                 !.me.pc = "put_cache"]
                 ELSE [st EXCEPT !.me = Raises(me)]
          [] pc = "put_cache" ->
                 [st EXCEPT !.cache = Put(c, k, [key |-> k, hash |-> me.file_hash]),
                            !.me.pc = "put_count"]
          [] pc = "put_count" ->
                 [st EXCEPT !.access_count = Put(a, k, [key |-> k, count |-> 1]),
                            !.me = Returns(me, me.file_hash)]

RECURSIVE RunGetHash(_)
(* The call run to its return with nothing in between.                     *)
RunGetHash(st) ==
    IF st.me.pc = "done" THEN st ELSE RunGetHash(GetHashStep(st))

Dicts(me) ==
    [cache |-> cache, access_count |-> access_count,
     max_entries |-> max_entries, me |-> me]

(* The count a further hit would raise stays within the bound.             *)
CountsBelow(filepath) ==
    disk[filepath].exists =>
        \A i \in DOMAIN access_count :
            access_count[i].key = CacheKey(filepath, disk[filepath]) =>
                access_count[i].count < MaxAccess

DictsInit ==
    /\ IndexInit
    /\ returned = <<>>
    /\ destFiles = EmptyMap
    /\ lastOp = NoOp
    /\ simLeft = None
    /\ simRight = None
    /\ writer = NoThread
    /\ reader = NoThread
    /\ cache = <<>>
    /\ access_count = <<>>
    /\ max_entries \in MaxEntriesChoices
    /\ disk \in [CachePaths -> HashFiles]
    /\ calls = <<>>
    /\ workers = <<>>
    /\ progress = ProgressInit
    /\ run = NoThread

(* get_hash(filepath) in a single thread.                                  *)
DictsGetHash(filepath) ==
    /\ CountsBelow(filepath)
    /\ LET after == RunGetHash(Dicts(Calling(filepath, disk[filepath])))
       IN  /\ cache' = after.cache
           /\ access_count' = after.access_count
           /\ calls' = <<[call |-> after.me, cache_before |-> cache,
                          count_before |-> access_count]>>
    /\ UNCHANGED <<indexVars, returned, destFiles, lastOp, simLeft, simRight, poolVars,
                   threadVars, max_entries, disk>>

(* clear() (lines 181-184).                                                *)
DictsClear ==
    /\ cache /= <<>> \/ access_count /= <<>> \/ calls /= <<>>
    /\ cache' = <<>>
    /\ access_count' = <<>>
    /\ calls' = <<>>
    /\ UNCHANGED <<indexVars, returned, destFiles, lastOp, simLeft, simRight, poolVars,
                   threadVars, max_entries, disk>>

DictsTouch(filepath, file) ==
    /\ file /= disk[filepath]
    /\ disk' = [disk EXCEPT ![filepath] = file]
    /\ UNCHANGED <<indexVars, returned, destFiles, lastOp, simLeft, simRight, poolVars,
                   threadVars, cache, access_count, max_entries, calls>>

DictsNext ==
    \/ \E filepath \in CachePaths : DictsGetHash(filepath)
    \/ DictsClear
    \/ \E filepath \in CachePaths, file \in HashFiles : DictsTouch(filepath, file)

SpecDicts == DictsInit /\ [][DictsNext]_vars

----------------------------------------------------------------------------
(* One FastHashCache shared by the workers of a pool: each worker is       *)
(* inside get_hash or between two calls, and the operations of the calls   *)
(* interleave.  get_hash takes no lock.                                    *)

SharedInit ==
    /\ IndexInit
    /\ returned = <<>>
    /\ destFiles = EmptyMap
    /\ lastOp = NoOp
    /\ simLeft = None
    /\ simRight = None
    /\ writer = NoThread
    /\ reader = NoThread
    /\ cache = <<>>
    /\ access_count = <<>>
    /\ max_entries \in MaxEntriesChoices \ {0}
    /\ disk \in [CachePaths -> HashFiles]
    /\ calls = <<>>
    /\ workers = [w \in WorkerIds |-> IdleWorker]
    /\ progress = ProgressInit
    /\ run = NoThread

Resting == \A w \in WorkerIds : workers[w].pc \in {"idle", "done"}

(* Worker w calls get_hash(filepath).                                      *)
SharedStart(w, filepath) ==
    /\ workers[w].pc \in {"idle", "done"}
    /\ CountsBelow(filepath)
    /\ workers' = [workers EXCEPT ![w] = Calling(filepath, disk[filepath])]
    /\ UNCHANGED <<indexVars, returned, destFiles, lastOp, simLeft, simRight, poolVars,
                   writer, reader, cacheVars>>

(* Worker w performs the next operation of its call.                       *)
SharedStep(w) ==
    /\ workers[w].pc \notin {"idle", "done"}
    /\ LET after == GetHashStep(Dicts(workers[w]))
       IN  /\ cache' = after.cache
           /\ access_count' = after.access_count
           /\ workers' = [workers EXCEPT ![w] = after.me]
    /\ UNCHANGED <<indexVars, returned, destFiles, lastOp, simLeft, simRight, poolVars,
                   writer, reader, max_entries, disk, calls>>

SharedNext ==
    \/ \E w \in WorkerIds, filepath \in CachePaths : SharedStart(w, filepath)
    \/ \E w \in WorkerIds : SharedStep(w)

SpecShared == SharedInit /\ [][SharedNext]_vars

----------------------------------------------------------------------------
(* The organizer's run on one index: the destination is seeded and photos  *)
(* are copied, one call at a time.                                         *)

PipeNext ==
    \/ /\ Idle
       /\ \E directory \in Directories, log_given \in BOOLEAN :
              SeedStart(directory, log_given)
    \/ SeedFile
    \/ /\ Idle
       /\ next_id <= MaxRecords
       /\ \E input \in Inputs,
             enable_csv_log, force_copy, system, copy_ok \in BOOLEAN :
              \E order \in Orders(_gather_candidate_ids(
                                      DedupRecord(input, force_copy, input.path))) :
                  CopyPhoto(input, enable_csv_log, force_copy, system, copy_ok,
                            order)
    \/ Return

SpecPipeline == Init /\ [][PipeNext]_vars

----------------------------------------------------------------------------
(* The two fingerprint functions on the bytes of a file.  The content of a *)
(* file is a sequence of runs [len, byte] (len bytes of the same value);   *)
(* SHA-256 is taken to be collision-free, so a digest is named by the      *)
(* bytes it was fed.                                                       *)

RECURSIVE Size(_)
Size(content) ==
    IF content = <<>> THEN 0 ELSE Head(content).len + Size(Tail(content))

RECURSIVE Take(_, _)
(* The first n bytes.                                                      *)
Take(content, n) ==
    IF n <= 0 \/ content = <<>> THEN <<>>
    ELSE IF Head(content).len <= n
    THEN <<Head(content)>> \o Take(Tail(content), n - Head(content).len)
    ELSE <<[Head(content) EXCEPT !.len = n]>>

RECURSIVE Drop(_, _)
(* What follows the first n bytes.                                         *)
Drop(content, n) ==
    IF n <= 0 \/ content = <<>> THEN content
    ELSE IF Head(content).len <= n
    THEN Drop(Tail(content), n - Head(content).len)
    ELSE <<[Head(content) EXCEPT !.len = @ - n]>> \o Tail(content)

RECURSIVE Joined(_)
(* The same bytes with adjacent runs of one value merged.                  *)
Joined(content) ==
    IF Len(content) <= 1 THEN content
    ELSE LET first == content[1]
             rest  == Joined(Tail(content))
         IN  IF first.byte = Head(rest).byte
             THEN <<[first EXCEPT !.len = @ + Head(rest).len]>> \o Tail(rest)
             ELSE <<first>> \o rest

(* A slice bound as Python resolves it: a negative index counts from the   *)
(* end, and the result is clipped to the sequence.                         *)
SliceIndex(i, n) == IF i < 0 THEN Max(i + n, 0) ELSE Min(i, n)

(* content[start:stop]                                                     *)
Slice(content, start, stop) ==
    LET n  == Size(content)
        lo == SliceIndex(start, n)
        hi == SliceIndex(stop, n)
    IN  IF hi <= lo THEN <<>> ELSE Take(Drop(content, lo), hi - lo)

(* hashlib.sha256 fed these bytes, and its hexdigest.                      *)
Sha256(fed) == [sha256 |-> Joined(fed)]

(* compute_smart_hash(filepath, max_bytes) for a file with this content.   *)
SmartHash(file, max_bytes) ==
    LET mm         == file.content
        file_size  == Size(mm)
        chunk_size == max_bytes \div 3
        mid_start  == (file_size \div 2) - (chunk_size \div 2)
        beginning  == Slice(mm, 0, chunk_size)
        middle     == IF file_size > chunk_size * 6
                      THEN Slice(mm, mid_start, mid_start + chunk_size)
                      ELSE <<>>
        end        == IF file_size > chunk_size * 2
                      THEN Slice(mm, -chunk_size, file_size)
                      ELSE <<>>
    IN  IF ~file.readable THEN None
        ELSE IF file_size <= max_bytes THEN Some(Sha256(mm))
        ELSE Some(Sha256(beginning \o middle \o end))

(* photo_hash_quick                                                        *)
photo_hash_quick(file) == SmartHash(file, 1024)

(* compute_partial_hash(filepath, max_bytes) for a file with this content. *)
PartialHash(file, max_bytes) ==
    LET chunk == Take(file.content, max_bytes)
    IN  IF ~file.readable \/ chunk = <<>> THEN None
        ELSE Some(Sha256(chunk))

(* Files of 0 to 14 bytes that are all different, and the sample budgets   *)
(* they are hashed with.                                                   *)
SampleSizes == 0..14

SampleBudgets == 1..7

Numbered(n) == [i \in 1..n |-> [len |-> 1, byte |-> i]]

(* Files around the 1 KiB budget of the index: empty, short, exactly at    *)
(* the budget, and longer ones that agree or differ in their first 1024    *)
(* bytes, in their leading and trailing 341 bytes and in their middle.     *)
Run(len, byte) == [len |-> len, byte |-> byte]

IndexedContents ==
    {<<>>,
     <<Run(10, 1)>>,
     <<Run(10, 2)>>,
     <<Run(1024, 1)>>,
     <<Run(1024, 1), Run(976, 2)>>,
     <<Run(1024, 1), Run(976, 3)>>,
     <<Run(341, 1), Run(683, 2), Run(976, 3)>>,
     <<Run(341, 1), Run(683, 4), Run(976, 3)>>,
     <<Run(1024, 1), Run(500, 2), Run(1476, 1)>>,
     <<Run(1024, 1), Run(500, 3), Run(1476, 1)>>}

IndexedFiles ==
    [content : IndexedContents, readable : {TRUE}]
        \cup {[content |-> <<Run(10, 1)>>, readable |-> FALSE]}

(* compute_smart_hash is called on a file.                                 *)
SmartHashCall(file, max_bytes) ==
    /\ Idle
    /\ lastOp' = [op        |-> "compute_smart_hash",
                  file      |-> file,
                  max_bytes |-> max_bytes,
                  value     |-> SmartHash(file, max_bytes)]
    /\ UNCHANGED <<indexVars, returned, destFiles, simLeft, simRight, extVars>>

(* Two files are fingerprinted as build_record does (line 72) and with the *)
(* quick preset.                                                           *)
Fingerprints(left, right) ==
    /\ Idle
    /\ lastOp' = [op      |-> "fingerprints",
                  left    |-> left,
                  right   |-> right,
                  partial |-> <<PartialHash(left, PartialHashBytes),
                                PartialHash(right, PartialHashBytes)>>,
                  quick   |-> <<photo_hash_quick(left), photo_hash_quick(right)>>]
    /\ UNCHANGED <<indexVars, returned, destFiles, simLeft, simRight, extVars>>

HashNext ==
    \/ \E n \in SampleSizes, max_bytes \in SampleBudgets, readable \in BOOLEAN :
           SmartHashCall([content |-> Numbered(n), readable |-> readable],
                         max_bytes)
    \/ \E left, right \in IndexedFiles : Fingerprints(left, right)
    \/ Return

SpecHash == Init /\ [][HashNext]_vars

----------------------------------------------------------------------------
(* compute_progressive_hash: the stages are taken in the order given; the  *)
(* result is a dictionary keyed by the stage, in insertion order.          *)

(* f.read(n) at the position reached: n bytes, or all that is left when n  *)
(* is -1; a buffered reader rejects any other negative length.             *)
ReadRaises(n) == n < -1

Read(rest, n) == IF n = -1 THEN rest ELSE Take(rest, n)

RECURSIVE Stages(_, _, _, _)
(* The loop of lines 77-88 from stage k on: data_read is what has been     *)
(* read so far, results what has been stored.  An exception ends the loop  *)
(* with what has been stored (lines 90-93).                                *)
Stages(content, stages, k, st) ==
    IF k > Len(stages) THEN st.results
    ELSE LET max_bytes == stages[k]
             rest      == Drop(content, Size(st.data_read))
             want      == max_bytes - Size(st.data_read)
         IN  IF Size(content) <= max_bytes
             THEN LET data_read == st.data_read \o rest
                  IN  Put(st.results, max_bytes,
                          [key |-> max_bytes, hash |-> Sha256(data_read)])
             ELSE IF ReadRaises(want) THEN st.results
             ELSE LET data_read == st.data_read \o Read(rest, want)
                  IN  Stages(content, stages, k + 1,
                             [data_read |-> data_read,
                              results   |-> Put(st.results, max_bytes,
                                                [key  |-> max_bytes,
                                                 hash |-> Sha256(data_read)])])

compute_progressive_hash(file, stages) ==
    IF ~file.readable THEN <<>>
    ELSE Stages(file.content, stages, 1, [data_read |-> <<>>, results |-> <<>>])

(* Stage lists of up to three stages, in any order, repeats included.      *)
StageChoices == {2, 3, 8}

StageLists == UNION {[1..n -> StageChoices] : n \in 0..3}

ProgressiveHashCall(file, stages) ==
    /\ Idle
    /\ lastOp' = [op      |-> "compute_progressive_hash",
                  file    |-> file,
                  stages  |-> stages,
                  results |-> compute_progressive_hash(file, stages)]
    /\ UNCHANGED <<indexVars, returned, destFiles, simLeft, simRight, extVars>>

ProgressiveNext ==
    \/ \E n \in SampleSizes, readable \in BOOLEAN, stages \in StageLists :
           ProgressiveHashCall([content |-> Numbered(n), readable |-> readable],
                               stages)
    \/ Return

SpecProgressive == Init /\ [][ProgressiveNext]_vars

----------------------------------------------------------------------------
(* ThreadSafeProgress, updated by the pool's workers while the main thread *)
(* takes snapshots.  A `with self.lock` block is entered when the lock is  *)
(* free and left at its last statement; `x += 1` is a read followed by a   *)
(* write.                                                                  *)

MaxUpdates == 2

ResultTypes == {"copied", "skipped", "error"}

(* Mutant: the block is entered whoever holds the lock. *)
LockFree_ignored(p) == TRUE

LockFree(p) == ~p.lock

(* The counter update() adds to for a result type, beside processed.       *)
Tallied(p, result_type) ==
    IF result_type = "copied" THEN p.copied
    ELSE IF result_type = "skipped" THEN p.skipped
    ELSE IF result_type = "error" THEN p.errors
    ELSE 0

Tally(p, result_type, v) ==
    IF result_type = "copied" THEN [p EXCEPT !.copied = v]
    ELSE IF result_type = "skipped" THEN [p EXCEPT !.skipped = v]
    ELSE IF result_type = "error" THEN [p EXCEPT !.errors = v]
    ELSE p

UpdateSteps ==
    {"update", "load_processed", "store_processed", "load_kind", "store_kind"}

(* progress.update(me.result_type): the calling thread's next operation.   *)
UpdateStep(me, p) ==
    IF me.pc = "update"
    THEN [me |-> [me EXCEPT !.pc = "load_processed"],
          progress |-> [p EXCEPT !.lock = TRUE]]
    ELSE IF me.pc = "load_processed"
    THEN [me |-> [me EXCEPT !.pc = "store_processed", !.tmp = p.processed],
          progress |-> p]
    ELSE IF me.pc = "store_processed"
    THEN [me |-> [me EXCEPT !.pc = "load_kind"],
          progress |-> [p EXCEPT !.processed = me.tmp + 1]]
    ELSE IF me.pc = "load_kind"
    THEN [me |-> [me EXCEPT !.pc = "store_kind", !.tmp = Tallied(p, me.result_type)],
          progress |-> p]
    ELSE [me |-> [me EXCEPT !.pc = "updated"],
          progress |-> [Tally(p, me.result_type, me.tmp + 1) EXCEPT !.lock = FALSE]]

StatsSteps == {"get_stats", "read_processed", "read_counts"}

(* progress.get_stats() by the main thread: its next operation.  The dict  *)
(* is built field by field inside the block.                               *)
GetStatsStep(me, p) ==
    IF me.pc = "get_stats"
    THEN [me |-> [me EXCEPT !.pc = "read_processed"],
          progress |-> [p EXCEPT !.lock = TRUE]]
    ELSE IF me.pc = "read_processed"
    THEN [me |-> [me EXCEPT !.pc = "read_counts", !.processed = p.processed],
          progress |-> p]
    ELSE [me |-> [me EXCEPT !.pc = "got",
                            !.stats = Some([processed |-> me.processed,
                                            copied    |-> p.copied,
                                            skipped   |-> p.skipped,
                                            errors    |-> p.errors])],
          progress |-> [p EXCEPT !.lock = FALSE]]

(* A thread about to enter a `with self.lock` block waits for the lock.    *)
Blocked(me, p) == me.pc \in {"update", "get_stats"} /\ ~LockFree(p)

NoneSent == [r \in ResultTypes |-> 0]

ProgressSpecInit ==
    /\ IndexInit
    /\ returned = <<>>
    /\ destFiles = EmptyMap
    /\ lastOp = NoOp
    /\ simLeft = None
    /\ simRight = None
    /\ writer = NoThread
    /\ reader = NoThread
    /\ cache = <<>>
    /\ access_count = <<>>
    /\ max_entries = 0
    /\ disk = EmptyMap
    /\ calls = <<>>
    /\ workers = [w \in WorkerIds |-> [pc |-> "idle", tmp |-> 0, sent |-> NoneSent]]
    /\ progress = ProgressInit
    /\ run = [pc |-> "idle", processed |-> 0, stats |-> None, before |-> None]

(* Worker w calls progress.update(result_type), as process_file_batch does *)
(* once for each file.                                                     *)
ProgressUpdate(w, result_type) ==
    /\ workers[w].pc \in {"idle", "updated"}
    /\ workers[w].sent["copied"] + workers[w].sent["skipped"]
           + workers[w].sent["error"] < MaxUpdates
    /\ workers' = [workers EXCEPT ![w] =
                       [pc |-> "update", tmp |-> 0, sent |-> workers[w].sent,
                        result_type |-> result_type]]
    /\ UNCHANGED <<indexVars, returned, destFiles, lastOp, simLeft, simRight,
                   writer, reader, cacheVars, progress, run>>

(* Worker w performs the next operation of its update; `sent` counts the   *)
(* updates it has completed, by result type.                               *)
ProgressStep(w) ==
    /\ workers[w].pc \in UpdateSteps
    /\ ~Blocked(workers[w], progress)
    /\ LET after == UpdateStep(workers[w], progress)
           type  == workers[w].result_type
       IN  /\ progress' = after.progress
           /\ workers' = [workers EXCEPT ![w] =
                             IF after.me.pc = "updated"
                             THEN [after.me EXCEPT !.sent[type] = @ + 1]
                             ELSE after.me]
    /\ UNCHANGED <<indexVars, returned, destFiles, lastOp, simLeft, simRight,
                   writer, reader, cacheVars, run>>

(* The main thread calls progress.get_stats(); `before` keeps the snapshot *)
(* it got from the call before.                                            *)
ProgressGetStats ==
    /\ run.pc \in {"idle", "got"}
    /\ run' = [run EXCEPT !.pc = "get_stats", !.before = run.stats]
    /\ UNCHANGED <<indexVars, returned, destFiles, lastOp, simLeft, simRight,
                   threadVars, cacheVars, progress>>

ProgressStatsStep ==
    /\ run.pc \in StatsSteps
    /\ ~Blocked(run, progress)
    /\ LET after == GetStatsStep(run, progress)
       IN  /\ progress' = after.progress
           /\ run' = after.me
    /\ UNCHANGED <<indexVars, returned, destFiles, lastOp, simLeft, simRight,
                   threadVars, cacheVars>>

ProgressNext ==
    \/ \E w \in WorkerIds, result_type \in ResultTypes : ProgressUpdate(w, result_type)
    \/ \E w \in WorkerIds : ProgressStep(w)
    \/ ProgressGetStats
    \/ ProgressStatsStep

SpecProgress == ProgressSpecInit /\ [][ProgressNext]_vars

----------------------------------------------------------------------------
(* parallel_scan_and_organize_photos: the main thread splits the scanned   *)
(* files into batches, submits them to the pool and watches the futures;   *)
(* each pool worker runs process_file_batch on the batches it takes.  What *)
(* copy_photo_with_metadata does with a file is left open here: it returns *)
(* one of its three results or raises.  The logging callback returns.      *)

MaxFiles == 4

(* BATCH_SIZE, scaled down from 50. *)
BATCH_SIZE == 2

Ceil(n, d) == (n + d - 1) \div d

Filter(list, keep) == SelectSeq(list, LAMBDA f : f \in keep)

(* Mutant: only full batches are made. *)
Batches_full_only(all_files) ==
    [b \in 1..(Len(all_files) \div BATCH_SIZE) |->
        SubSeq(all_files, (b - 1) * BATCH_SIZE + 1, b * BATCH_SIZE)]

(* [all_files[i:i + BATCH_SIZE] for i in range(0, len(all_files), BATCH_SIZE)] *)
Batches(all_files) ==
    [b \in 1..Ceil(Len(all_files), BATCH_SIZE) |->
        SubSeq(all_files, (b - 1) * BATCH_SIZE + 1,
               Min(b * BATCH_SIZE, Len(all_files)))]

CopyOutcomes == ResultTypes \cup {"raises"}

DoneCount(futures) == Cardinality({b \in DOMAIN futures : futures[b].state = "done"})

RECURSIVE Concat(_)
Concat(lists) ==
    IF lists = <<>> THEN <<>> ELSE Head(lists) \o Concat(Tail(lists))

RunInit ==
    /\ IndexInit
    /\ returned = <<>>
    /\ destFiles = EmptyMap
    /\ lastOp = NoOp
    /\ simLeft = None
    /\ simRight = None
    /\ writer = NoThread
    /\ reader = NoThread
    /\ cache = <<>>
    /\ access_count = <<>>
    /\ max_entries = 0
    /\ disk = EmptyMap
    /\ calls = <<>>
    /\ workers = [w \in WorkerIds |-> IdleWorker]
    /\ progress = ProgressInit
    /\ \E n \in 0..MaxFiles, processed_set \in SUBSET (1..MaxFiles) :
           run = [pc            |-> "start",
                  scanned       |-> [i \in 1..n |-> i],
                  processed_set |-> processed_set,
                  counted       |-> [f \in 1..MaxFiles |-> 0]]

(* Lines 164-189: the files to process, the batches, one future for each.  *)
RunStart ==
    /\ run.pc = "start"
    /\ LET all_files == IF run.processed_set /= {}
                        THEN Filter(run.scanned, (1..MaxFiles) \ run.processed_set)
                        ELSE run.scanned
           batches   == Batches(all_files)
       IN  run' =
               IF Len(all_files) = 0
               THEN [run EXCEPT !.pc = "returned"] @@ [all_files |-> all_files]
               ELSE [pc                |-> "loop",
                     scanned           |-> run.scanned,
                     processed_set     |-> run.processed_set,
                     counted           |-> run.counted,
                     all_files         |-> all_files,
                     total_files       |-> Len(all_files),
                     batches           |-> batches,
                     futures           |-> [b \in DOMAIN batches |->
                                               [state |-> "pending", result |-> <<>>]],
                     completed_batches |-> 0,
                     final             |-> FALSE,
                     processed         |-> 0,
                     stats             |-> None,
                     before            |-> None,
                     all_results       |-> <<>>]
    /\ UNCHANGED <<indexVars, returned, destFiles, lastOp, simLeft, simRight,
                   threadVars, cacheVars, progress>>

(* The monitoring loop (lines 192-213) and what follows it, one operation  *)
(* of the main thread at a time.  future.result() returns at once for a    *)
(* future that is done and waits for one that is not.                      *)
RunMain ==
    /\ run.pc \in {"loop", "count", "got", "collect"} \cup StatsSteps
    /\ ~Blocked(run, progress)
    /\ run.pc = "collect" => DoneCount(run.futures) = Len(run.futures)
    /\ LET stats == GetStatsStep(run, progress)
       IN  IF run.pc = "loop"
           THEN /\ run' = [run EXCEPT !.pc =
                              IF run.completed_batches < Len(run.futures)
                              THEN "count" ELSE "collect"]
                /\ UNCHANGED progress
           ELSE IF run.pc = "count"
           THEN /\ run' = [run EXCEPT
                              !.pc = "get_stats",
                              !.completed_batches =
                                  Max(DoneCount(run.futures), run.completed_batches)]
                /\ UNCHANGED progress
           ELSE IF run.pc \in StatsSteps
           THEN /\ run' = stats.me
                /\ progress' = stats.progress
           ELSE IF run.pc = "got"
           THEN /\ run' = [run EXCEPT !.pc = IF run.final THEN "terminated" ELSE "loop"]
                /\ UNCHANGED progress
           ELSE /\ run' = [run EXCEPT
                              !.pc = "get_stats",
                              !.final = TRUE,
                              !.all_results =
                                  Concat([b \in DOMAIN run.futures |->
                                             run.futures[b].result])]
                /\ UNCHANGED progress
    /\ UNCHANGED <<indexVars, returned, destFiles, lastOp, simLeft, simRight,
                   threadVars, cacheVars>>

Pending == {b \in DOMAIN run.futures : run.futures[b].state = "pending"}

(* A free pool worker takes the batch submitted first among those waiting  *)
(* and enters process_file_batch.                                          *)
RunTake(w) ==
    /\ run.pc \notin {"start", "returned"}
    /\ workers[w].pc = "idle"
    /\ Pending /= {}
    /\ LET b == CHOOSE c \in Pending : \A d \in Pending : c <= d
       IN  /\ run' = [run EXCEPT !.futures[b].state = "running"]
           /\ workers' = [workers EXCEPT ![w] =
                             [pc |-> "file", batch |-> b, pos |-> 1, results |-> <<>>,
                              tmp |-> 0, result_type |-> ""]]
    /\ UNCHANGED <<indexVars, returned, destFiles, lastOp, simLeft, simRight,
                   writer, reader, cacheVars, progress>>

(* Lines 108-120 and 122-123: the worker calls copy_photo_with_metadata on *)
(* the next file of its batch, notes the result, or error when the call    *)
(* raised, and goes on to progress.update.                                 *)
RunCopy(w, outcome) ==
    /\ workers[w].pc = "file"
    /\ workers[w].pos <= Len(run.batches[workers[w].batch])
    /\ LET src_path    == run.batches[workers[w].batch][workers[w].pos]
           result_type == IF outcome = "raises" THEN "error" ELSE outcome
       IN  workers' = [workers EXCEPT
                          ![w].pc = "update",
                          ![w].result_type = result_type,
                          ![w].results = Append(@, <<result_type, src_path>>)]
    /\ UNCHANGED <<indexVars, returned, destFiles, lastOp, simLeft, simRight,
                   writer, reader, cacheVars, poolVars>>

(* The next operation of progress.update; when it returns the worker moves *)
(* to the next file.  `counted` notes for each file how many updates were  *)
(* made for it.                                                            *)
RunUpdate(w) ==
    /\ workers[w].pc \in UpdateSteps
    /\ ~Blocked(workers[w], progress)
    /\ LET after    == UpdateStep(workers[w], progress)
           src_path == run.batches[workers[w].batch][workers[w].pos]
       IN  /\ progress' = after.progress
           /\ IF after.me.pc = "updated"
              THEN /\ workers' = [workers EXCEPT ![w] =
                                     [after.me EXCEPT !.pc = "file", !.pos = @ + 1]]
                   /\ run' = [run EXCEPT !.counted[src_path] = @ + 1]
              ELSE /\ workers' = [workers EXCEPT ![w] = after.me]
                   /\ UNCHANGED run
    /\ UNCHANGED <<indexVars, returned, destFiles, lastOp, simLeft, simRight,
                   writer, reader, cacheVars>>

(* Line 126: process_file_batch returns and its future is done.            *)
RunReturn(w) ==
    /\ workers[w].pc = "file"
    /\ workers[w].pos > Len(run.batches[workers[w].batch])
    /\ run' = [run EXCEPT ![ "futures" ][workers[w].batch] =
                             [state |-> "done", result |-> workers[w].results]]
    /\ workers' = [workers EXCEPT ![w] = IdleWorker]
    /\ UNCHANGED <<indexVars, returned, destFiles, lastOp, simLeft, simRight,
                   writer, reader, cacheVars, progress>>

RunWorker(w) ==
    \/ RunTake(w)
    \/ \E outcome \in CopyOutcomes : RunCopy(w, outcome)
    \/ RunUpdate(w)
    \/ RunReturn(w)

RunNext ==
    \/ RunStart
    \/ RunMain
    \/ \E w \in WorkerIds : RunWorker(w)

(* The main thread keeps being scheduled: an operation of it that stays    *)
(* possible is performed.                                                  *)
SpecRun == RunInit /\ [][RunNext]_vars /\ WF_vars(RunMain)

----------------------------------------------------------------------------
(* Properties.                                                             *)


Found == lastOp.op = "find_best_match"

Scored == lastOp.op = "score"

(* C1: on an index to which no record has been added, find_best_match     *)
(* returns exactly (0.0, None), whatever features the query has.           *)
C1_EmptyIndexNoMatch ==
    (Found /\ DOMAIN records = {}) =>
        (lastOp.score = 0 /\ lastOp.match = None)

C1_Witness ==
    /\ Found
    /\ DOMAIN records = {}
    /\ IsSome(lastOp.query.partial_hash)
    /\ IsSome(lastOp.query.resolution)

(* C2: find_best_match(q) never returns a record whose src_path equals     *)
(* q's src_path, even when that record shares every other feature with q   *)
(* and several indexed records carry that src_path.                        *)
C2_SelfExclusion ==
    (Found /\ IsSome(lastOp.match)) =>
        Val(lastOp.match).src_path /= lastOp.query.src_path

C2_Witness ==
    /\ Found
    /\ Cardinality(DOMAIN records) = 2
    /\ \A i \in DOMAIN records : [records[i] EXCEPT !.id = None] = lastOp.query
    /\ Len(lastOp.order) = 2

(* C3: the similarity score is symmetric: _calculate_similarity(A, B)      *)
(* equals _calculate_similarity(B, A) for every pair of records.           *)
C3_Symmetric == Scored => lastOp.score = lastOp.swapped

(* C4: records built from byte-identical files with the same file name     *)
(* have equal partial fingerprints and similarity exactly 100.00, also     *)
(* when they carry no width/height and no capture time.                    *)
SameContent(f, g) == f.head = g.head /\ f.size = g.size

IdenticalFilesSameName ==
    /\ Scored
    /\ SameContent(simLeft.file, simRight.file)
    /\ simLeft.path.name = simRight.path.name

BothRead ==
    /\ simLeft.file.readable /\ simRight.file.readable
    /\ simLeft.file.size > 0

(* The claim as made, taken where it is most favourable: on non-empty      *)
(* files that were both read, so that both fingerprints are present.       *)
C4_Original ==
    (IdenticalFilesSameName /\ BothRead) =>
        /\ lastOp.left.partial_hash = lastOp.right.partial_hash
        /\ lastOp.score = 10000

HasDims(r) ==
    IsSome(r.width) /\ IsSome(r.height) /\ Val(r.width) > 0 /\ Val(r.height) > 0

AllSignalsEqual ==
    /\ HasDims(lastOp.left) /\ HasDims(lastOp.right)
    /\ lastOp.left.width = lastOp.right.width
    /\ lastOp.left.height = lastOp.right.height
    /\ IsSome(_parse_datetime(lastOp.left.date_taken))
    /\ _parse_datetime(lastOp.left.date_taken) = _parse_datetime(lastOp.right.date_taken)
    /\ lastOp.left.mtime = lastOp.right.mtime

(* C4, amended: for byte-identical, non-empty files that were both read,   *)
(* with the same file name, the fingerprints are present and equal; the    *)
(* score is exactly 100.00 when both records also carry the same positive  *)
(* width and height, the same parseable capture time and the same mtime;   *)
(* a pair in which a record lacks width/height scores at most 85.00, and   *)
(* at most 80.00 when a capture time is missing as well.                   *)
C4_IdenticalFiles ==
    (IdenticalFilesSameName /\ BothRead) =>
        /\ IsSome(lastOp.left.partial_hash)
        /\ lastOp.left.partial_hash = lastOp.right.partial_hash
        /\ AllSignalsEqual => lastOp.score = 10000
        /\ ~(HasDims(lastOp.left) /\ HasDims(lastOp.right)) => lastOp.score <= 8500
        /\ (/\ ~(HasDims(lastOp.left) /\ HasDims(lastOp.right))
            /\ ~(IsSome(lastOp.left.date_taken) /\ IsSome(lastOp.right.date_taken)))
               => lastOp.score <= 8000

C4_Witness ==
    /\ IdenticalFilesSameName
    /\ BothRead
    /\ ~HasDims(lastOp.left)
    /\ ~HasDims(lastOp.right)
    /\ lastOp.left.date_taken = None
    /\ lastOp.left.mtime = lastOp.right.mtime
    /\ lastOp.score = 8000

(* C5: querying with an exact duplicate of an indexed record (same         *)
(* content, other path, other file name) returns the original with a score *)
(* of at least strict_threshold whenever the partial fingerprints and the  *)
(* sizes are equal, whatever the other signals are.                        *)
DuplicateOf(query, original) ==
    /\ original.src_path /= query.src_path
    /\ original.file_name /= query.file_name
    /\ IsSome(query.partial_hash)
    /\ original.partial_hash = query.partial_hash
    /\ original.size = query.size

C5_Original ==
    Found =>
        \A i \in DOMAIN records :
            DuplicateOf(lastOp.query, records[i]) =>
                /\ lastOp.score >= StrictThreshold
                /\ IsSome(lastOp.match)
                /\ DuplicateOf(lastOp.query, Val(lastOp.match))

(* C5, amended: such a query returns a match whose score is at least the   *)
(* original's score and at least 65.00 (fingerprint 45 + size 20); the     *)
(* match is the original or a record scoring at least as high.             *)
C5_DuplicateFound ==
    Found =>
        \A i \in DOMAIN records :
            DuplicateOf(lastOp.query, records[i]) =>
                /\ IsSome(lastOp.match)
                /\ lastOp.score >= 100 * (WeightPartialHash + WeightSize)
                /\ lastOp.score >= _calculate_similarity(lastOp.query, records[i])
                /\ lastOp.score = _calculate_similarity(lastOp.query, Val(lastOp.match))

C5_Witness ==
    /\ Found
    /\ Cardinality(DOMAIN records) = 2
    /\ \E i \in DOMAIN records : DuplicateOf(lastOp.query, records[i])
    /\ lastOp.score < StrictThreshold
    /\ IsSome(lastOp.match)

(* C6: a stored record and a query are size-bucket candidates of each      *)
(* other exactly when their buckets differ by at most 2; with bucket width *)
(* 65536, sizes 65536 and 131072 are candidates of each other.             *)
BucketDistance(left, right) == Abs(Bucket(left.size) - Bucket(right.size))

C6_SizeBucketNeighbours ==
    Found =>
        \A i \in DOMAIN records :
            /\ (i \in SizeBucketCandidates(lastOp.query))
                   <=> (BucketDistance(records[i], lastOp.query) <= 2)
            /\ (BucketDistance(records[i], lastOp.query) <= 2)
                   => i \in Range(lastOp.order)
            /\ ({records[i].size, lastOp.query.size} = {65536, 131072})
                   => i \in Range(lastOp.order)

C6_Witness ==
    /\ Found
    /\ SizeBucketBytes = 65536
    /\ \E i, j \in DOMAIN records :
          /\ records[i].size = 65536
          /\ lastOp.query.size = 131072
          /\ i \in SizeBucketCandidates(lastOp.query)
          /\ BucketDistance(records[j], lastOp.query) = 2
          /\ j \in SizeBucketCandidates(lastOp.query)

(* C7: the similarity score lies in [0, 100]: each of the six signal       *)
(* contributions is between 0 and its weight, and the weights sum to 100.  *)
Within(x, weight) == FracLeq(Whole(0), x) /\ FracLeq(x, Whole(weight))

C7_ScoreBounded ==
    Scored =>
        /\ lastOp.score >= 0 /\ lastOp.score <= 10000
        /\ Within(PartialHashScore(lastOp.left, lastOp.right), WeightPartialHash)
        /\ Within(SizeScore(lastOp.left, lastOp.right), WeightSize)
        /\ Within(ResolutionScore(lastOp.left, lastOp.right), WeightResolution)
        /\ Within(FilenameScore(lastOp.left, lastOp.right), WeightFilename)
        /\ Within(DateTakenScore(lastOp.left, lastOp.right), WeightDateTaken)
        /\ Within(MtimeScore(lastOp.left, lastOp.right), WeightMtime)
        /\ WeightPartialHash + WeightSize + WeightResolution + WeightFilename
               + WeightDateTaken + WeightMtime = 100

C7_Witness ==
    /\ Scored
    /\ lastOp.score > 0 /\ lastOp.score < 10000
    /\ SizeScore(lastOp.left, lastOp.right) \notin {Whole(0), Whole(WeightSize)}
    /\ ResolutionScore(lastOp.left, lastOp.right)
           \notin {Whole(0), Whole(WeightResolution)}
    /\ DateTakenScore(lastOp.left, lastOp.right)
           \notin {Whole(0), Whole(WeightDateTaken)}
    /\ MtimeScore(lastOp.left, lastOp.right) \notin {Whole(0), Whole(WeightMtime)}

(* C8: add_record assigns identities 1, 2, 3, ... in call order: after n   *)
(* calls the stored identities are exactly 1..n, each returned identity is *)
(* greater than every earlier one, no two records share an identity, and a *)
(* stored record's identity never changes.                                 *)
IdentitiesSequential ==
    /\ DOMAIN records = 1..Len(returned)
    /\ next_id = Len(returned) + 1
    /\ \A k \in DOMAIN returned : returned[k] = k
    /\ \A i \in DOMAIN records : records[i].id = Some(i)
    /\ \A i, j \in DOMAIN records : records[i].id = records[j].id => i = j

IdentityKept ==
    \A i \in DOMAIN records :
        i \in DOMAIN records' /\ records'[i].id = records[i].id

C8_SequentialIdentities == []IdentitiesSequential /\ [][IdentityKept]_vars

C8_Witness ==
    /\ lastOp.op = "add_record"
    /\ lastOp.id = 2
    /\ returned = <<1, 2>>

Copied == lastOp.op = "copy_photo"

(* C9: in copy_photo_with_metadata every file for which a dedup record is  *)
(* built and matched is added to the index exactly once before the call    *)
(* returns or raises, whatever the outcome and whether or not CSV logging  *)
(* is enabled.                                                             *)
C9_AddedExactlyOnce ==
    (Copied /\ lastOp.built) => Len(returned) = lastOp.calls_before + 1

(* C10: a file whose best match scores at least strict_threshold (and      *)
(* force_copy is false) is not copied, the call returns ("skipped", path   *)
(* of the match), and its record is stored with status skipped_duplicate,  *)
(* with CSV logging enabled as well as disabled.                           *)
StrictMatch ==
    /\ Copied
    /\ lastOp.built
    /\ IsSome(lastOp.match)
    /\ lastOp.score >= StrictThreshold
    /\ ~lastOp.force_copy

C10_StrictSuppressed ==
    StrictMatch =>
        /\ lastOp.result = "skipped"
        /\ lastOp.path = _resolve_match_path(lastOp.match)
        /\ destFiles = lastOp.dest_before
        /\ Len(returned) = lastOp.calls_before + 1
        /\ records[Len(returned)].status = "skipped_duplicate"

(* C11: a file whose best match scores at least log_threshold and less     *)
(* than strict_threshold is still processed: the call reaches the copy     *)
(* step (it ends "copied" or "error", never by an exception) and, when the *)
(* copy succeeds, returns ("copied", destination) with the record stored   *)
(* with status copied, with CSV logging enabled as well as disabled.       *)
PotentialMatch ==
    /\ Copied
    /\ lastOp.built
    /\ IsSome(lastOp.match)
    /\ lastOp.score >= LogThreshold
    /\ lastOp.score < StrictThreshold

C11_PotentialStillCopied ==
    PotentialMatch =>
        /\ lastOp.result \in {"copied", "error"}
        /\ lastOp.copy_ok =>
               /\ lastOp.result = "copied"
               /\ Len(returned) = lastOp.calls_before + 1
               /\ records[Len(returned)].status = "copied"

(* The record the writer is adding belongs to the map a gather step reads, *)
(* under the key the reader's record makes it read.                        *)
Belongs(m) ==
    LET mine  == writer.record
        query == reader.record
    IN  CASE m = "by_partial_hash" ->
                 IsSome(mine.partial_hash) /\ mine.partial_hash = query.partial_hash
          [] m = "by_size_exact" -> mine.size = query.size
          [] m = "bucket_lo"  -> Bucket(query.size) - 1 \in Neighbors(Bucket(mine.size))
          [] m = "bucket_mid" -> Bucket(query.size) \in Neighbors(Bucket(mine.size))
          [] m = "bucket_hi"  -> Bucket(query.size) + 1 \in Neighbors(Bucket(mine.size))
          [] m = "by_resolution" ->
                 /\ IsSome(mine.resolution) /\ Val(mine.resolution) > 0
                 /\ mine.resolution = query.resolution
          [] m = "by_name" ->
                 /\ mine.normalized_name /= <<>>
                 /\ mine.normalized_name = query.normalized_name

HasIdentity == writer.pc \notin {"idle", "take_id"}

ReaderSaw(m) == HasIdentity /\ writer.id \in reader.got[m]

Gathered == reader.pc \in {"iterate", "loop", "done"}

(* C12: no find_best_match running concurrently with add_record observes   *)
(* the new record in some of the maps it belongs to and not in others: of  *)
(* the maps the reader consulted under a key of the new record, either all *)
(* showed the new identity or none did.                                    *)
C12_AtomicRegistration ==
    (Gathered /\ writer.pc /= "idle") =>
        \A m1, m2 \in GatherSteps :
            (Belongs(m1) /\ Belongs(m2)) => (ReaderSaw(m1) = ReaderSaw(m2))

(* The candidates find_best_match has on the index without the record      *)
(* being added, and on the index with it.                                  *)
CandidatesBefore ==
    _gather_candidate_ids(reader.record)
        \ (IF HasIdentity THEN {writer.id} ELSE {})

CandidatesAfter ==
    CandidatesBefore
        \cup (IF \E m \in GatherSteps : Belongs(m) THEN {writer.id} ELSE {})

ResultsOn(candidates) ==
    {find_best_match(reader.record, order) : order \in Orders(candidates)}

IsStored == HasIdentity /\ writer.id \in DOMAIN records

(* C13: find_best_match run concurrently with one add_record returns what  *)
(* it returns on the index before that add_record or on the index after    *)
(* it, for every interleaving; every identity it gathers is already in     *)
(* _records with its record complete, so no lookup comes back empty.       *)
C13_ConcurrentMatchSafe ==
    /\ Gathered =>
           \A id \in reader.candidates :
               id \in DOMAIN records /\ records[id].id = Some(id)
    /\ reader.pc = "done" =>
           \/ reader.best \in ResultsOn(CandidatesBefore)
           \/ IsStored /\ reader.best \in ResultsOn(CandidatesAfter)

C13_Witness ==
    /\ reader.pc = "done"
    /\ HasIdentity
    /\ IsSome(reader.best.match)
    /\ Val(reader.best.match).id = Some(writer.id)
    /\ \E m \in GatherSteps : Belongs(m) /\ ~ReaderSaw(m)
    /\ reader.best \notin ResultsOn(CandidatesBefore)

CalledTwice == Len(calls) = 2

SameKeyTwice ==
    /\ CalledTwice
    /\ IsSome(calls[1].key)
    /\ calls[1].key = calls[2].key

KeyChanged ==
    /\ CalledTwice
    /\ calls[1].path = calls[2].path
    /\ IsSome(calls[1].key) /\ IsSome(calls[2].key)
    /\ calls[1].key /= calls[2].key

KeysOf(entries) == {entries[i].key : i \in DOMAIN entries}

(* C14 as stated: two successive get_hash calls with the same (path, size, *)
(* mtime) key, the first of which invoked the hash function, invoke it     *)
(* exactly once and return the same value; when the size or the mtime      *)
(* changed between the calls, the second call invokes it again.  Stated    *)
(* for a cache that has room for at least one entry.                       *)
C14_Original ==
    max_entries >= 1 =>
        /\ (SameKeyTwice /\ calls[1].invoked) =>
               (~calls[2].invoked /\ calls[2].value = calls[1].value)
        /\ KeyChanged => calls[2].invoked

(* C14: two successive get_hash calls with the same key: when the first    *)
(* returned a hash, the second returns the same hash without invoking the  *)
(* hash function; when the first returned None (no hash was produced, or   *)
(* the cache has no room at all), nothing was cached and the second call   *)
(* invokes the hash function again.  When the size or the mtime changed    *)
(* between the calls, the second call uses the new key: it invokes the     *)
(* hash function unless an entry for the new key is still cached.          *)
C14_SameKeyOnce ==
    /\ (SameKeyTwice /\ IsSome(calls[1].value)) =>
           (~calls[2].invoked /\ calls[2].value = calls[1].value)
    /\ (SameKeyTwice /\ calls[1].value = None) =>
           (calls[1].invoked /\ calls[2].invoked)
    /\ KeyChanged =>
           (calls[2].invoked <=> Val(calls[2].key) \notin KeysOf(calls[2].before))

C14_Witness ==
    /\ SameKeyTwice
    /\ calls[1].invoked
    /\ IsSome(calls[1].value)
    /\ ~calls[2].invoked
    /\ calls[2].value = calls[1].value

LastCall == calls[Len(calls)]

InsertedWhenFull ==
    /\ calls /= <<>>
    /\ LastCall.invoked
    /\ IsSome(LastCall.value)
    /\ max_entries >= 1
    /\ Len(LastCall.before) = max_entries

SeedReturned == lastOp.op = "seed"

RECURSIVE GoodFiles(_)
GoodFiles(directory) ==
    IF directory = <<>> THEN <<>>
    ELSE IF Supported(Head(directory)) /\ Head(directory).file /= Absent
         THEN <<Head(directory).path>> \o GoodFiles(Tail(directory))
         ELSE GoodFiles(Tail(directory))

RECURSIVE FailedFiles(_)
FailedFiles(directory) ==
    IF directory = <<>> THEN <<>>
    ELSE IF Supported(Head(directory)) /\ Head(directory).file = Absent
         THEN <<Head(directory).path>> \o FailedFiles(Tail(directory))
         ELSE FailedFiles(Tail(directory))

(* C16: seed_from_directory returns exactly the number of records it       *)
(* added; every record it added has status seeded and final_path equal to  *)
(* its src_path; a file whose build_record fails is passed to the logging  *)
(* callback when one is given, is not counted, and the files after it are  *)
(* still seeded: each supported file that can be stat'ed is added, in walk *)
(* order.                                                                  *)
C16_SeedCountsSuccesses ==
    SeedReturned =>
        LET good == GoodFiles(lastOp.directory)
            from == lastOp.calls_before
        IN  /\ lastOp.added = Len(returned) - from
            /\ lastOp.added = Len(good)
            /\ \A k \in 1..Len(good) :
                   LET record == records[returned[from + k]]
                   IN  /\ record.src_path = good[k]
                       /\ record.status = "seeded"
                       /\ record.final_path = Some(record.src_path)
            /\ lastOp.logged = IF lastOp.log_given
                               THEN FailedFiles(lastOp.directory) ELSE <<>>
            /\ \A id \in DOMAIN lastOp.records_before :
                   records[id] = lastOp.records_before[id]

C16_Witness ==
    /\ SeedReturned
    /\ lastOp.log_given
    /\ Len(lastOp.directory) = 2
    /\ lastOp.directory[1].file = Absent
    /\ lastOp.logged = <<lastOp.directory[1].path>>
    /\ lastOp.added = 1
    /\ records[Len(returned)].src_path = lastOp.directory[2].path

Built == lastOp.op = "build_record"

(* C17: build_record on a path that cannot be stat'ed raises and leaves    *)
(* the index unchanged; when the stat succeeds and the content cannot be   *)
(* read, it does not raise and returns the record with partial_hash        *)
(* absent.                                                                 *)
C17_StatFailureRaises ==
    Built =>
        /\ indexVars = lastOp.index_before
        /\ lastOp.entry.file = Absent => lastOp.built = None
        /\ lastOp.entry.file /= Absent =>
               /\ IsSome(lastOp.built)
               /\ Val(lastOp.built).size = lastOp.entry.file.size
               /\ ~lastOp.entry.file.readable =>
                      Val(lastOp.built).partial_hash = None

C17_Witness ==
    /\ Built
    /\ lastOp.entry.file = Absent
    /\ lastOp.built = None

C17_UnreadableWitness ==
    /\ Built
    /\ lastOp.entry.file /= Absent
    /\ ~lastOp.entry.file.readable
    /\ IsSome(lastOp.built)
    /\ Val(lastOp.built).partial_hash = None

Constructed == lastOp.op = "construct"

BadConfiguration(args) ==
    \/ args.size_bucket_bytes < 0
    \/ args.strict_threshold < 0 \/ args.strict_threshold > 10000
    \/ args.log_threshold < 0 \/ args.log_threshold > 10000

(* C18: constructing a DeduplicationIndex with a negative size_bucket_bytes *)
(* or with strict_threshold or log_threshold outside [0, 100] is rejected:  *)
(* the constructor raises and no index object results.                      *)
C18_BadConfigRejected ==
    (Constructed /\ BadConfiguration(lastOp.args)) => lastOp.object.raised

KeepsEntries(map, map_after) ==
    /\ \A key \in DOMAIN map :
           key \in DOMAIN map_after /\ map[key] \subseteq map_after[key]
    /\ \A key \in DOMAIN map_after :
           map_after[key] \ Lookup(map, key) \subseteq {next_id}

FramePreserved ==
    /\ \A id \in DOMAIN records :
           id \in DOMAIN records' /\ records'[id] = records[id]
    /\ DOMAIN records' \subseteq DOMAIN records \cup {next_id}
    /\ KeepsEntries(by_partial_hash, by_partial_hash')
    /\ KeepsEntries(by_size_exact, by_size_exact')
    /\ KeepsEntries(by_size_bucket, by_size_bucket')
    /\ KeepsEntries(by_resolution, by_resolution')
    /\ KeepsEntries(by_name, by_name')

(* C19: add_record leaves every record stored before and every identity    *)
(* registered before in the inverted maps as they were, adding only the    *)
(* new identity; the stored record is a copy, so what the caller later     *)
(* does to the dict it passed (status, final_path, similarity) does not    *)
(* reach the stored record.                                                *)
C19_AddOnlyAndCopies == [][FramePreserved]_vars

C19_Witness ==
    /\ lastOp.op = "caller_mutated"
    /\ lastOp.id = 2
    /\ records[2].status = "pending"
    /\ lastOp.record.status = "copied"
    /\ lastOp.record.final_path /= records[2].final_path
    /\ records[1].id = Some(1)

(* C20: in copy_photo_with_metadata add_record for a file's record is      *)
(* called only after find_best_match for that record has returned: the     *)
(* match it gets is a record stored before the call began, never the       *)
(* record of the file itself, and the record added afterwards (at most     *)
(* one) carries the score and the match that were found.                   *)
C20_MatchBeforeAdd ==
    (Copied /\ lastOp.built) =>
        /\ IsSome(lastOp.match) =>
               \E id \in 1..lastOp.calls_before :
                   /\ Val(lastOp.match).id = Some(id)
                   /\ Val(lastOp.match) = records[id]
        /\ Len(returned) <= lastOp.calls_before + 1
        /\ Len(returned) = lastOp.calls_before + 1 =>
               LET added == records[Len(returned)]
               IN  /\ added.src_path = lastOp.input.path
                   /\ added.similarity = Some(lastOp.score)
                   /\ added.matched_record_id =
                          IF IsSome(lastOp.match) THEN Val(lastOp.match).id
                          ELSE None

C20_Witness ==
    /\ Copied
    /\ lastOp.built
    /\ IsSome(lastOp.match)
    /\ Val(lastOp.match).src_path /= lastOp.input.path
    /\ lastOp.result = "copied"
    /\ Len(returned) = lastOp.calls_before + 1
    /\ records[Len(returned)].matched_record_id = Some(1)

Finished(w) == workers[w].pc = "done" /\ workers[w].out.built

Twins(v, w) ==
    /\ v /= w
    /\ Finished(v) /\ Finished(w)
    /\ workers[v].input.path /= workers[w].input.path
    /\ workers[v].input.file = workers[w].input.file
    /\ workers[v].input.dims = workers[w].input.dims
    /\ workers[v].input.date_taken = workers[w].input.date_taken

(* C21: match, decide and add are not one critical section.  Of two        *)
(* workers that processed byte-identical files at different paths, one     *)
(* whose match ran when the other's record was already in the index is     *)
(* suppressed as a duplicate of a record scoring at least strict_threshold *)
(* (processing one after the other), and both files end up copied and      *)
(* added only when each match ran before the other's add_record; that      *)
(* interleaving exists (the witness).                                      *)
C21_MissedDuplicateRace ==
    \A v, w \in WorkerIds :
        Twins(v, w) =>
            /\ workers[w].seen >= workers[v].id =>
                   /\ workers[w].out.result = "skipped"
                   /\ workers[w].out.score >= StrictThreshold
            /\ (workers[v].out.result = "copied" /\ workers[w].out.result = "copied")
                   => (workers[w].seen < workers[v].id /\ workers[v].seen < workers[w].id)

C21_Witness ==
    /\ Twins(1, 2)
    /\ workers[1].out.result = "copied"
    /\ workers[2].out.result = "copied"
    /\ workers[1].out.score < StrictThreshold
    /\ workers[2].out.score < StrictThreshold
    /\ Len(returned) = 2
    /\ records[1].status = "copied" /\ records[2].status = "copied"
    /\ DOMAIN destFiles = {Val(workers[1].out.path), Val(workers[2].out.path)}

Added(w) == workers[w].pc = "done"

(* C22: when several workers call add_record concurrently every call gets  *)
(* a distinct identity and every added record stays stored: the identities *)
(* returned are pairwise different, and a worker's record is found under   *)
(* the identity it was given.                                              *)
C22_DistinctIdentities ==
    /\ \A i, j \in DOMAIN returned : i /= j => returned[i] /= returned[j]
    /\ \A w \in WorkerIds :
           Added(w) =>
               /\ workers[w].record_id \in DOMAIN records
               /\ records[workers[w].record_id] = workers[w].record

KeysIn(dict) == {dict[i].key : i \in DOMAIN dict}

(* C23: in single-threaded use with max_entries >= 1, after every get_hash *)
(* and clear call the cache holds at most max_entries entries, cache and   *)
(* access_count hold the same keys, and every access count is at least 1.  *)
C23_CacheInvariant ==
    max_entries >= 1 =>
        /\ Len(cache) <= max_entries
        /\ KeysIn(cache) = KeysIn(access_count)
        /\ Len(cache) = Cardinality(KeysIn(cache))
        /\ Len(access_count) = Cardinality(KeysIn(access_count))
        /\ \A i \in DOMAIN access_count : access_count[i].count >= 1

(* A full cache of two entries that has evicted, been hit and inserted.    *)
C23_Witness ==
    /\ max_entries = 2
    /\ Len(cache) = 2
    /\ calls /= <<>>
    /\ calls[1].call.lru_key /= <<>>
    /\ \E i \in DOMAIN access_count : access_count[i].count >= 2

Fruitless(call) ==
    \/ call.invoked /\ ~Truthy(call.file_hash)
    \/ ~call.file.exists

(* C24: a get_hash call whose hash function returns None or an empty       *)
(* string, or whose file cannot be stat'ed, returns no fingerprint and     *)
(* leaves cache and access_count as they were.                             *)
C24_FailureLeavesCache ==
    \A i \in DOMAIN calls :
        Fruitless(calls[i].call) =>
            /\ ~Truthy(calls[i].call.value)
            /\ cache = calls[i].cache_before
            /\ access_count = calls[i].count_before

(* Such a call made on a cache that holds entries, for the empty string.   *)
C24_Witness ==
    /\ calls /= <<>>
    /\ calls[1].call.invoked
    /\ calls[1].call.file_hash = Some(<<>>)
    /\ cache /= <<>>

(* The same for a file that is not there.                                  *)
C24_AbsentWitness ==
    /\ calls /= <<>>
    /\ ~calls[1].call.file.exists
    /\ cache /= <<>>

(* C25: with one cache shared by concurrent workers, whenever no call is   *)
(* under way the cache holds at most max_entries entries and cache and     *)
(* access_count hold the same keys, and every call whose hash function     *)
(* produced a fingerprint returned that fingerprint.                       *)
C25_SharedCacheSafe ==
    /\ Resting =>
           /\ Len(cache) <= max_entries
           /\ KeysIn(cache) = KeysIn(access_count)
    /\ \A w \in WorkerIds :
           (workers[w].pc = "done" /\ workers[w].invoked
                /\ Truthy(workers[w].file_hash))
               => workers[w].value = workers[w].file_hash

(* The candidates of the last query that reached its score.                *)
TiedBest ==
    {i \in Range(lastOp.order) :
        /\ records[i].src_path /= lastOp.query.src_path
        /\ _calculate_similarity(lastOp.query, records[i]) = lastOp.score}

(* C26: when several candidates tie for the maximum score find_best_match  *)
(* returns the one that was inserted first, whatever the index and query.  *)
C26_FirstInsertedWinsTie ==
    (Found /\ IsSome(lastOp.match)) =>
        \A i \in TiedBest : Val(Val(lastOp.match).id) <= i

Distance(a, b) == IF a >= b THEN a - b ELSE b - a

(* The query and a stored record have an index key in common.              *)
SharesKey(query, stored) ==
    \/ IsSome(query.partial_hash) /\ stored.partial_hash = query.partial_hash
    \/ stored.size = query.size
    \/ Distance(Bucket(stored.size), Bucket(query.size)) <= 2
    \/ /\ IsSome(query.resolution) /\ Val(query.resolution) > 0
       /\ stored.resolution = query.resolution
    \/ query.normalized_name /= <<>>
           /\ stored.normalized_name = query.normalized_name

Sharing(query) == {i \in DOMAIN records : SharesKey(query, records[i])}

Eligible(query) ==
    {i \in Sharing(query) : records[i].src_path /= query.src_path}

(* C27: find_best_match looks at exactly the stored records that share an  *)
(* index key with the query, and returns the maximum score over those of   *)
(* them with another src_path (0 when there is none).                      *)
C27_MaxOverCandidates ==
    Found =>
        /\ Range(lastOp.order) = Sharing(lastOp.query)
        /\ \A i \in Eligible(lastOp.query) :
               _calculate_similarity(lastOp.query, records[i]) <= lastOp.score
        /\ \/ lastOp.score = 0
           \/ \E i \in Eligible(lastOp.query) :
                  _calculate_similarity(lastOp.query, records[i]) = lastOp.score

(* A query with one stored record it shares a key with and one it shares   *)
(* nothing with.                                                           *)
C27_Witness ==
    /\ Found
    /\ lastOp.score > 0
    /\ Eligible(lastOp.query) /= {}
    /\ DOMAIN records \ Sharing(lastOp.query) /= {}

(* A stored record the query reaches through the name map alone.           *)
C27_NameOnlyWitness ==
    /\ Found
    /\ \E i \in Sharing(lastOp.query) :
           /\ records[i].normalized_name = lastOp.query.normalized_name
           /\ ~SharesKey([lastOp.query EXCEPT !.normalized_name = <<>>], records[i])

OrganizerStatuses == {"copied", "skipped_duplicate", "error"}

(* What a step may do to the statuses in the index: those stored stay as   *)
(* they are, the seed pass stores "seeded" and a copy one of the others.   *)
StatusStep ==
    /\ \A i \in DOMAIN records :
           i \in DOMAIN records' /\ records'[i].status = records[i].status
    /\ \A i \in DOMAIN records' \ DOMAIN records :
           IF lastOp.op = "seeding"
           THEN records'[i].status = "seeded"
           ELSE /\ lastOp'.op = "copy_photo"
                /\ records'[i].status \in OrganizerStatuses

(* C28: every record the organizer stores has status seeded, copied,       *)
(* skipped_duplicate or error, never pending; seeded is given by           *)
(* seed_from_directory only; a stored record's status never changes.       *)
C28_StatusLifecycle == [][StatusStep]_vars

(* A seeded record and a copied one side by side.                          *)
C28_Witness ==
    \E i, j \in DOMAIN records :
        /\ records[i].status = "seeded"
        /\ records[j].status \in OrganizerStatuses

(* The bytes at positions lo .. hi - 1.                                    *)
Between(content, lo, hi) == Take(Drop(content, lo), hi - lo)

(* The bytes the sampling rule names for a file and a budget.              *)
Sampled(content, max_bytes) ==
    LET size  == Size(content)
        third == max_bytes \div 3
        mid   == (size \div 2) - (third \div 2)
    IN  Between(content, 0, third)
        \o (IF size > 6 * third THEN Between(content, mid, mid + third) ELSE <<>>)
        \o (IF size > 2 * third THEN Between(content, size - third, size) ELSE <<>>)

(* C29: a readable file of at most max_bytes bytes is hashed in full; a    *)
(* larger one is hashed over [0, third), the middle third when size >      *)
(* 6 * third and [size - third, size) when size > 2 * third, in that       *)
(* order, for every max_bytes >= 1.                                        *)
C29_SampledRanges ==
    (lastOp.op = "compute_smart_hash" /\ lastOp.file.readable) =>
        LET content == lastOp.file.content
        IN  lastOp.value =
                Some(Sha256(IF Size(content) <= lastOp.max_bytes THEN content
                            ELSE Sampled(content, lastOp.max_bytes)))

(* Two files are equal by a fingerprint: both have one and it is the same. *)
FingerprintEqual(hashes) == IsSome(hashes[1]) /\ hashes[1] = hashes[2]

(* C30: the fingerprint build_record stores for a file is its quick-tier   *)
(* hash, so two files are fingerprint-equal in the index exactly when      *)
(* their quick-tier hashes are equal.                                      *)
C30_PartialIsQuick ==
    lastOp.op = "fingerprints" =>
        /\ lastOp.partial = lastOp.quick
        /\ FingerprintEqual(lastOp.partial) <=> FingerprintEqual(lastOp.quick)

(* C31: for a readable file compute_progressive_hash returns one digest    *)
(* per stage of the list, the digest of stage s being the hash of the      *)
(* first min(s, size) bytes of the file.                                   *)
C31_CumulativePrefixes ==
    (lastOp.op = "compute_progressive_hash" /\ lastOp.file.readable) =>
        /\ Len(lastOp.results) = Len(lastOp.stages)
        /\ \A i \in DOMAIN lastOp.results :
               lastOp.results[i] =
                   [key  |-> lastOp.stages[i],
                    hash |-> Sha256(Take(lastOp.file.content, lastOp.stages[i]))]

(* Two records have no signal in common: fingerprints different or absent, *)
(* sizes 1% or more apart, resolutions absent or 5% or more apart, file    *)
(* names without a common character, capture times absent or 300 s or more *)
(* apart, mtimes 60 s or more apart.                                       *)
NoSharedSignal(left, right) ==
    LET pos(o)     == IsSome(o) /\ Val(o) > 0
        sized(r)   == pos(r.width) /\ pos(r.height)
        area(r)    == Val(r.width) * Val(r.height)
        date_left  == _parse_datetime(left.date_taken)
        date_right == _parse_datetime(right.date_taken)
    IN  /\ ~(IsSome(left.partial_hash) /\ left.partial_hash = right.partial_hash)
        /\ left.size /= right.size
        /\ SizeWindowInv * Abs(left.size - right.size) >= Max(left.size, right.size)
        /\ (sized(left) /\ sized(right)) =>
               AreaWindowInv * Abs(area(left) - area(right))
                   >= Max(area(left), area(right))
        /\ Range(LowerStr(left.file_name)) \cap Range(LowerStr(right.file_name)) = {}
        /\ (IsSome(date_left) /\ IsSome(date_right)) =>
               Abs(Val(date_left).sec - Val(date_right).sec) >= DateWindow
        /\ Abs(left.mtime - right.mtime) >= MtimeWindow

(* C32: the size signal gives its full 20 points whenever the two sizes    *)
(* are equal, zero included, and a pair with no signal in common scores    *)
(* exactly 0.                                                              *)
C32_IndependentSignals ==
    Scored =>
        /\ lastOp.left.size = lastOp.right.size =>
               SizeScore(lastOp.left, lastOp.right) = Whole(WeightSize)
        /\ NoSharedSignal(lastOp.left, lastOp.right) => lastOp.score = 0

RECURSIVE Backed(_)
(* The stored record stands for a file that is in the destination: it was  *)
(* copied or seeded, or it was skipped as the duplicate of such a record.  *)
Backed(i) ==
    /\ i \in DOMAIN records
    /\ \/ records[i].status \in {"copied", "seeded"}
       \/ /\ records[i].status = "skipped_duplicate"
          /\ IsSome(records[i].matched_record_id)
          /\ Val(records[i].matched_record_id) < i
          /\ Backed(Val(records[i].matched_record_id))

SkippedAsDuplicate ==
    /\ lastOp.op = "copy_photo"
    /\ lastOp.result = "skipped"
    /\ lastOp.why = "duplicate"

(* C33: a file is skipped as a duplicate only of a record whose file is in *)
(* the destination; a record stored with status error never makes a later  *)
(* file be skipped.                                                        *)
C33_SkippedOnlyForExistingCopy ==
    SkippedAsDuplicate => Backed(Val(Val(lastOp.match).id))

(* The keys of an inverted map under which an identity is registered.      *)
KeysOfId(map, i) == {k \in DOMAIN map : i \in map[k]}

IdsIn(map) == UNION {map[k] : k \in DOMAIN map}

(* C34: after any sequence of add_record calls every identity in an        *)
(* inverted map is a key of _records, and every stored record is           *)
(* registered under its own fingerprint, size, three size buckets,         *)
(* positive resolution and non-empty normalized name, and nowhere else.    *)
C34_IndexConsistent ==
    /\ IdsIn(by_partial_hash) \cup IdsIn(by_size_exact) \cup IdsIn(by_size_bucket)
           \cup IdsIn(by_resolution) \cup IdsIn(by_name) \subseteq DOMAIN records
    /\ \A i \in DOMAIN records :
           LET record == records[i]
               bucket == record.size \div SizeBucketBytes
           IN  /\ KeysOfId(by_partial_hash, i) =
                      IF IsSome(record.partial_hash)
                      THEN {Val(record.partial_hash)} ELSE {}
               /\ KeysOfId(by_size_exact, i) = {record.size}
               /\ KeysOfId(by_size_bucket, i) = {bucket - 1, bucket, bucket + 1}
               /\ KeysOfId(by_resolution, i) =
                      IF IsSome(record.resolution) /\ Val(record.resolution) > 0
                      THEN {Val(record.resolution)} ELSE {}
               /\ KeysOfId(by_name, i) =
                      IF record.normalized_name /= <<>>
                      THEN {record.normalized_name} ELSE {}

(* Two stored records, one with every feature and one without fingerprint  *)
(* and resolution.                                                         *)
C34_Witness ==
    /\ lastOp.op = "add_record"
    /\ \E i, j \in DOMAIN records :
           /\ IsSome(records[i].partial_hash) /\ IsSome(records[i].resolution)
           /\ records[j].partial_hash = None /\ records[j].resolution = None

Queried == lastOp.op \in {"find_best_match", "find_again"}

Compared ==
    {i \in Range(lastOp.order) : records[i].src_path /= lastOp.query.src_path}

(* C36: find_best_match returns a match exactly when the returned score is *)
(* strictly positive; a candidate scoring 0 is never the match, the result *)
(* is (0.0, None) when every candidate scores 0, and the similarity of a   *)
(* returned match to the query is the returned score.                      *)
C36_MatchIffPositive ==
    Found =>
        /\ IsSome(lastOp.match) <=> lastOp.score > 0
        /\ IsSome(lastOp.match) =>
               /\ _calculate_similarity(lastOp.query, Val(lastOp.match)) = lastOp.score
               /\ \E i \in Compared : records[i] = Val(lastOp.match)
        /\ (\A i \in Compared : _calculate_similarity(lastOp.query, records[i]) = 0) =>
               (lastOp.score = 0 /\ lastOp.match = None)

(* A query whose only candidates score 0.                                  *)
C36_Witness ==
    /\ Found
    /\ Compared /= {}
    /\ \A i \in Compared : _calculate_similarity(lastOp.query, records[i]) = 0
    /\ lastOp.match = None

RECURSIVE SentBy(_, _)
(* The updates of one result type that the workers in W have completed.    *)
SentBy(W, result_type) ==
    IF W = {} THEN 0
    ELSE LET w == CHOOSE v \in W : TRUE
         IN  workers[w].sent[result_type] + SentBy(W \ {w}, result_type)

Consistent(stats) ==
    stats.processed = stats.copied + stats.skipped + stats.errors

AtMost(a, b) ==
    /\ a.processed <= b.processed
    /\ a.copied <= b.copied
    /\ a.skipped <= b.skipped
    /\ a.errors <= b.errors

(* C37: with several workers inside update at once, every snapshot that    *)
(* get_stats returns has processed = copied + skipped + errors; no update  *)
(* is lost: outside the lock each counter is the number of updates made    *)
(* for it; and no counter, in the object or from one snapshot to the next, *)
(* ever decreases.                                                         *)
C37_ProgressConsistent ==
    /\ [](/\ run.pc = "got" => Consistent(Val(run.stats))
          /\ (run.pc = "got" /\ IsSome(run.before)) =>
                 AtMost(Val(run.before), Val(run.stats))
          /\ LockFree(progress) =>
                 /\ progress.copied = SentBy(WorkerIds, "copied")
                 /\ progress.skipped = SentBy(WorkerIds, "skipped")
                 /\ progress.errors = SentBy(WorkerIds, "error")
                 /\ Consistent(progress))
    /\ [][AtMost(progress, progress')]_vars

(* A snapshot taken between updates of both workers, after which a worker  *)
(* is halfway through another update while the other waits for the lock.   *)
C37_Witness ==
    /\ run.pc = "got"
    /\ Val(run.stats).processed >= 2
    /\ IsSome(run.before)
    /\ Val(run.before) /= Val(run.stats)
    /\ \A w \in WorkerIds : SentBy({w}, "copied") + SentBy({w}, "error") >= 1
    /\ ~Consistent(progress)
    /\ \E w \in WorkerIds : Blocked(workers[w], progress)

ToProcess == Range(run.scanned) \ run.processed_set

Submitted == run.pc \notin {"start", "returned"}

(* Where a file lies in the batches.                                       *)
Places(f) ==
    {<<b, i>> \in (DOMAIN run.batches) \X (1..BATCH_SIZE) :
        i <= Len(run.batches[b]) /\ run.batches[b][i] = f}

AllDone == Submitted /\ DoneCount(run.futures) = Len(run.futures)

Terminated ==
    /\ run.pc = "terminated"
    /\ Val(run.stats).processed = Cardinality(ToProcess)
    /\ \A f \in ToProcess : run.counted[f] = 1

(* C38: every scanned file outside processed_set lies in exactly one batch *)
(* and no other file in any; no file is counted in the progress counters   *)
(* more than once, and at the end each file to process has been counted    *)
(* once and has one result; the monitoring loop is left only when every    *)
(* future is done, and once every future is done the run terminates with   *)
(* processed equal to the number of files to process.                      *)
C38_EachFileOnceAndTerminates ==
    /\ [](/\ Submitted =>
                /\ \A f \in 1..MaxFiles :
                       Cardinality(Places(f)) = IF f \in ToProcess THEN 1 ELSE 0
                /\ run.total_files = Cardinality(ToProcess)
          /\ \A f \in 1..MaxFiles :
                 run.counted[f] <= IF f \in ToProcess THEN 1 ELSE 0
          /\ run.pc = "returned" => (ToProcess = {} /\ progress.processed = 0)
          /\ (Submitted /\ (run.pc = "collect" \/ run.final)) => AllDone
          /\ run.pc = "terminated" =>
                 /\ Terminated
                 /\ Consistent(Val(run.stats))
                 /\ {r[2] : r \in Range(run.all_results)} = ToProcess
                 /\ Len(run.all_results) = Cardinality(ToProcess))
    /\ AllDone ~> Terminated

(* A finished run over four scanned files of which one had been processed  *)
(* before: two batches, the second short, a copy and an error.             *)
C38_Witness ==
    /\ Terminated
    /\ Len(run.batches) = 2
    /\ Len(run.batches[2]) = 1
    /\ Len(run.scanned) > run.total_files
    /\ Val(run.stats).errors >= 1
    /\ Val(run.stats).copied >= 1

====
